---- MODULE Spec2Model ----
(***************************************************************************)
(* Ledger, state machine, proposer rotation and consensus round of the     *)
(* permissioned blockchain core (src/blockchain/core, consensus,           *)
(* identity), and the off-ledger protocols built beside it: hashed         *)
(* timelock contracts and state channels (channels), atomic swaps          *)
(* (crosschain).                                                           *)
(*                                                                         *)
(* Hashes are modelled as token sequences: sha256 is the injective term    *)
(* constructor  x |-> <<"sha256(">> \o x \o <<")">>  (no collisions), and  *)
(* the JSON encodings that are hashed are the key-sorted field lists the   *)
(* code builds, with the signature left out.                               *)
(***************************************************************************)
EXTENDS Integers, Sequences, FiniteSets, TLC

VARIABLES
    chain,        \* Ledger.chain: sequence of blocks, chain[1] = genesis
    mempool,      \* Ledger.mempool: insertion-ordered dict, as the sequence of its values
    accounts,     \* StateManager.accounts: address -> Account
    total_supply, \* StateManager.total_supply
    registry,     \* ValidatorRegistry.validators: insertion-ordered dict, as a sequence
    rotation,     \* ProposerRotation: [validators, num_validators]
    now,          \* the clock time.time() reads
    last,         \* the last completed call: operation, arguments, result
    threads,      \* per thread: the call in flight, its position and its locals
    accepted,     \* transactions for which add_transaction returned True (concurrent runs)
    returned,     \* blocks returned by propose_new_block (concurrent runs)
    steps,        \* transactions applied so far (state-machine specification),
                  \* calls started so far (concurrent specification)
    probe,        \* the call on a MerkleTree, SPVHeaders or ProposerRotation
                  \* object under study:
                  \* its arguments and its result
    chain_htlc_managers, \* AtomicSwapManager.chain_htlc_managers: chain id ->
                  \* HTLCManager, each [htlcs, pending_htlcs] (dicts id -> HTLC)
    swaps,        \* AtomicSwapManager.swaps: swap id -> CrossChainSwap
    created,      \* HTLC, swap and channel objects constructed so far
    channels,     \* ChannelManager.channels: channel id -> StateChannel
    pending_closures, \* ChannelManager.pending_closures: id -> StateChannel
    call          \* the last completed call on an HTLC, swap or channel manager

vars == <<chain, mempool, accounts, total_supply, registry, rotation, now,
          last, threads, accepted, returned, steps, probe,
          chain_htlc_managers, swaps, created, channels, pending_closures, call>>

\* the state of the off-ledger managers
offledger == <<chain_htlc_managers, swaps, created, channels, pending_closures, call>>

-----------------------------------------------------------------------------
(* Bounds *)

MaxChain == 3      \* blocks in the chain, genesis included
MaxMempool == 2    \* transactions waiting in the mempool
MaxClock == 2      \* largest timestamp: blocks assembled in a run
MaxSteps == 3      \* transactions applied in the state-machine specification
MaxCalls == 4      \* calls started in the concurrent specification
MaxLeaves == 3     \* transactions of the block a Merkle proof is asked for
MaxHeight == 6     \* block heights get_current_proposer is asked about
MaxBlockTxs == 3   \* transactions of a block handed to commit_block
MaxCommits == 2    \* blocks committed in the block-commit specification
MaxHtlcs == 2      \* HTLC objects created in the HTLC specification
MaxTimeLock == 2   \* the time lock of the HTLCs and the largest block height
MaxSwapObjects == 5 \* swap and HTLC objects created in the swap specification
MaxChannels == 2    \* channels created in the channel specification
MaxSequence == 2    \* largest sequence number of a state update offered

-----------------------------------------------------------------------------
(* core/types.py *)

\* Optional[str] None (data, signature)
NoneStr == <<>>

\* tx.data is a string, held as its ":"-separated parts: "issue:d1" is
\* <<"issue", "d1">>, None is <<>>.
Transaction(s, r, a, d, n, sig) ==
    [sender |-> s, recipient |-> r, amount |-> a, data |-> d, nonce |-> n,
     signature |-> sig]

BlockHeader(ph, mr, ts, v, n, sig) ==
    [prev_hash |-> ph, merkle_root |-> mr, timestamp |-> ts, validator |-> v,
     nonce |-> n, signature |-> sig]

Block(h, txs) == [header |-> h, transactions |-> txs]

Account(a) == [address |-> a, balance |-> 0, dpas |-> <<>>]

DigitalPublicAsset(id, o, a, d) ==
    [asset_id |-> id, owner |-> o, amount |-> a, data |-> d]

-----------------------------------------------------------------------------
(* core/hash.py *)

hash_data(data) == <<"sha256(">> \o data \o <<")">>

RECURSIVE JoinColon(_)
JoinColon(parts) ==
    IF Len(parts) = 0 THEN <<>>
    ELSE IF Len(parts) = 1 THEN <<parts[1]>>
    ELSE <<parts[1], ":">> \o JoinColon(Tail(parts))

\* json.dumps of an Optional[str]
JsonStr(d) == IF d = NoneStr THEN <<"null">> ELSE <<"\"">> \o JoinColon(d) \o <<"\"">>

hash_transaction_signed(tx) ==
    hash_data(<<"amount", ToString(tx.amount), "data">> \o JsonStr(tx.data)
              \o <<"nonce", ToString(tx.nonce), "recipient", tx.recipient,
                   "sender", tx.sender, "signature">> \o JsonStr(tx.signature))

\* tx.__dict__ without 'signature', keys sorted
hash_transaction(tx) ==
    hash_data(<<"amount", ToString(tx.amount), "data">> \o JsonStr(tx.data)
              \o <<"nonce", ToString(tx.nonce), "recipient", tx.recipient,
                   "sender", tx.sender>>)

\* None (merkle_root of a block without transactions) in a header
NoneHash == <<"null">>

\* header.__dict__ without 'signature', keys sorted
hash_block_header(header) ==
    hash_data(<<"merkle_root">> \o header.merkle_root
              \o <<"nonce", ToString(header.nonce), "prev_hash">> \o header.prev_hash
              \o <<"timestamp", ToString(header.timestamp),
                   "validator", header.validator>>)

-----------------------------------------------------------------------------
(* core/merkle.py *)

sha256(s) == hash_data(s)

\* one level up: pairs of adjacent nodes, the level has even length
RECURSIVE NewLevel(_)
NewLevel(nodes) ==
    IF Len(nodes) = 0 THEN <<>>
    ELSE <<sha256(nodes[1] \o nodes[2])>> \o NewLevel(SubSeq(nodes, 3, Len(nodes)))

PadOdd(nodes) ==
    IF Len(nodes) % 2 # 0 THEN Append(nodes, nodes[Len(nodes)]) ELSE nodes

RECURSIVE build_tree(_)
build_tree(nodes) ==
    IF Len(nodes) = 1 THEN nodes[1]
    ELSE build_tree(NewLevel(PadOdd(nodes)))

\* MerkleTree(data).get_merkle_root()
MerkleRoot(data) ==
    IF Len(data) = 0 THEN NoneHash
    ELSE build_tree([i \in 1..Len(data) |-> sha256(data[i])])

TxHashes(txs) == [i \in 1..Len(txs) |-> hash_transaction(txs[i])]

\* MerkleTree(data): the object after __init__. _build_tree is handed
\* self.leaves itself, so its padding of an odd level stays in self.leaves.
MerkleTree(data) ==
    IF Len(data) = 0 THEN [leaves |-> <<>>, root |-> NoneHash]
    ELSE LET leaves == [i \in 1..Len(data) |-> sha256(data[i])]
         IN  [leaves |-> IF Len(leaves) = 1 THEN leaves ELSE PadOdd(leaves),
              root |-> build_tree(leaves)]

\* a proof is a list of (sibling_hash, direction); None is found = FALSE
Proof(path) == [found |-> TRUE, path |-> path]
NoProof == [found |-> FALSE, path |-> <<>>]

\* the while loop of get_proof; index counts from 0
RECURSIVE ProofPath(_, _)
ProofPath(level, index) ==
    IF Len(level) <= 1 THEN <<>>
    ELSE LET padded == PadOdd(level)
             is_left == index % 2 = 0
             sibling_index == IF is_left THEN index + 1 ELSE index - 1
         IN  <<[hash |-> padded[sibling_index + 1],
                direction |-> IF is_left THEN "right" ELSE "left"]>>
             \o ProofPath(NewLevel(padded), index \div 2)

\* MerkleTree.get_proof: data_hash is looked up among self.leaves
get_proof(tree, data_hash) ==
    IF \A i \in 1..Len(tree.leaves) : tree.leaves[i] # data_hash THEN NoProof
    ELSE Proof(ProofPath(tree.leaves,
                         (CHOOSE i \in 1..Len(tree.leaves) :
                             /\ tree.leaves[i] = data_hash
                             /\ \A j \in 1..(i - 1) : tree.leaves[j] # data_hash) - 1))

\* MerkleTree.verify_proof on a list
RECURSIVE ComputedHash(_, _)
ComputedHash(computed_hash, path) ==
    IF Len(path) = 0 THEN computed_hash
    ELSE ComputedHash(IF path[1].direction = "left"
                      THEN sha256(path[1].hash \o computed_hash)
                      ELSE sha256(computed_hash \o path[1].hash),
                      Tail(path))

\* MerkleTree.verify_proof: "True", "False", or the TypeError that iterating
\* over None raises
verify_proof(data_hash, proof, root_hash) ==
    IF ~proof.found THEN "TypeError"
    ELSE IF ComputedHash(data_hash, proof.path) = root_hash THEN "True"
    ELSE "False"

-----------------------------------------------------------------------------
(* lightclient/spv_headers.py *)

SPVHeaders(full_chain) ==
    [i \in 1..Len(full_chain) |->
        [hash |-> hash_block_header(full_chain[i].header),
         prev_hash |-> full_chain[i].header.prev_hash,
         merkle_root |-> full_chain[i].header.merkle_root,
         timestamp |-> full_chain[i].header.timestamp]]

\* the empty str
EmptyStr == <<>>

verify_merkle_proof(headers, tx_hash, proof, block_hash) ==
    LET hits == {i \in 1..Len(headers) : headers[i].hash = block_hash}
        merkle_root ==
            IF hits = {} THEN EmptyStr
            ELSE headers[CHOOSE i \in hits : \A j \in hits : i <= j].merkle_root
    IN  IF merkle_root = EmptyStr \/ merkle_root = NoneHash THEN "False"
        ELSE verify_proof(tx_hash, proof, merkle_root)

\* no call on a MerkleTree, SPVHeaders or ProposerRotation object so far
NoProbe == [op |-> "none", data_hash |-> <<>>, proof |-> NoProof,
            block_hash |-> <<>>, height |-> 0, result |-> "none"]

-----------------------------------------------------------------------------
(* core/block.py *)

create_block_no_root(prev_block_hash, transactions, validator, ts) ==
    Block(BlockHeader(prev_block_hash, NoneHash, ts, validator, 0, NoneStr),
          transactions)

create_block(prev_block_hash, transactions, validator, ts) ==
    Block(BlockHeader(prev_block_hash, MerkleRoot(TxHashes(transactions)), ts,
                      validator, 0, NoneStr),
          transactions)

is_block_valid_no_prev(block, prev_block) ==
    block.header.merkle_root = MerkleRoot(TxHashes(block.transactions))

is_block_valid_no_merkle(block, prev_block) ==
    block.header.prev_hash = hash_block_header(prev_block.header)

is_block_valid(block, prev_block) ==
    IF block.header.prev_hash # hash_block_header(prev_block.header) THEN FALSE
    ELSE IF block.header.merkle_root # MerkleRoot(TxHashes(block.transactions))
    THEN FALSE
    ELSE TRUE

-----------------------------------------------------------------------------
(* core/state.py *)

\* the state-machine state as one value
State(accs, supply) == [accounts |-> accs, total_supply |-> supply]

Truthy(d) == d # NoneStr /\ d # <<"">>

\* tx.data.startswith("issue:"): the string has a ":" right after "issue"
StartsWith(d, word) == Len(d) >= 2 /\ d[1] = word

\* StateManager.get_account: creates the account when absent
get_account(accs, address) ==
    IF address \in DOMAIN accs THEN accs ELSE accs @@ (address :> Account(address))

SetDpa(accs, address, dpa_id, dpa) ==
    [accs EXCEPT ![address].dpas =
        IF dpa_id \in DOMAIN @ THEN [@ EXCEPT ![dpa_id] = dpa]
        ELSE @ @@ (dpa_id :> dpa)]

process_issue_credit(st, tx) ==
    LET dpa_id == tx.data[2]
        new_dpa == DigitalPublicAsset(dpa_id, tx.recipient, tx.amount, tx.sender)
        accs1 == get_account(st.accounts, tx.recipient)
        accs2 == [accs1 EXCEPT ![tx.recipient].balance = @ + tx.amount]
    IN  State(SetDpa(accs2, tx.recipient, dpa_id, new_dpa),
              st.total_supply + tx.amount)

process_issue(st, tx) ==
    LET dpa_id == tx.data[2]
        new_dpa == DigitalPublicAsset(dpa_id, tx.recipient, tx.amount, tx.sender)
        accs1 == get_account(st.accounts, tx.recipient)
    IN  State(SetDpa(accs1, tx.recipient, dpa_id, new_dpa),
              st.total_supply + tx.amount)

process_dpa_transfer_no_debit(st, tx) ==
    LET dpa_id == tx.data[2]
        accs1 == get_account(get_account(st.accounts, tx.sender), tx.recipient)
    IN  IF dpa_id \in DOMAIN accs1[tx.sender].dpas
           /\ accs1[tx.sender].dpas[dpa_id].amount >= tx.amount
        THEN State(IF dpa_id \in DOMAIN accs1[tx.recipient].dpas
                   THEN [accs1 EXCEPT
                           ![tx.recipient].dpas[dpa_id].amount = @ + tx.amount]
                   ELSE SetDpa(accs1, tx.recipient, dpa_id,
                               DigitalPublicAsset(dpa_id, tx.recipient, tx.amount,
                                                  accs1[tx.sender].dpas[dpa_id].data)),
                   st.total_supply)
        ELSE State(accs1, st.total_supply)

process_dpa_transfer(st, tx) ==
    LET dpa_id == tx.data[2]
        accs1 == get_account(get_account(st.accounts, tx.sender), tx.recipient)
    IN  IF dpa_id \in DOMAIN accs1[tx.sender].dpas
           /\ accs1[tx.sender].dpas[dpa_id].amount >= tx.amount
        THEN LET src == accs1[tx.sender].dpas[dpa_id]
                 accs2 == [accs1 EXCEPT ![tx.sender].dpas[dpa_id].amount = @ - tx.amount]
                 accs3 == IF dpa_id \in DOMAIN accs2[tx.recipient].dpas
                          THEN [accs2 EXCEPT
                                  ![tx.recipient].dpas[dpa_id].amount = @ + tx.amount]
                          ELSE SetDpa(accs2, tx.recipient, dpa_id,
                                      DigitalPublicAsset(dpa_id, tx.recipient,
                                                         tx.amount, src.data))
             IN  State(accs3, st.total_supply)
        ELSE State(accs1, st.total_supply)

process_currency_no_debit(st, tx) ==
    LET accs1 == get_account(get_account(st.accounts, tx.sender), tx.recipient)
    IN  IF accs1[tx.sender].balance >= tx.amount
        THEN State([accs1 EXCEPT ![tx.recipient].balance = @ + tx.amount],
                   st.total_supply)
        ELSE State(accs1, st.total_supply)

process_currency_unchecked(st, tx) ==
    LET accs1 == get_account(get_account(st.accounts, tx.sender), tx.recipient)
        accs2 == [accs1 EXCEPT ![tx.sender].balance = @ - tx.amount]
        accs3 == [accs2 EXCEPT ![tx.recipient].balance = @ + tx.amount]
    IN  State(accs3, st.total_supply)

process_currency(st, tx) ==
    LET accs1 == get_account(get_account(st.accounts, tx.sender), tx.recipient)
    IN  IF accs1[tx.sender].balance >= tx.amount
        THEN LET accs2 == [accs1 EXCEPT ![tx.sender].balance = @ - tx.amount]
                 accs3 == [accs2 EXCEPT ![tx.recipient].balance = @ + tx.amount]
             IN  State(accs3, st.total_supply)
        ELSE State(accs1, st.total_supply)

process_transaction(st, tx) ==
    IF Truthy(tx.data) /\ StartsWith(tx.data, "issue") THEN process_issue(st, tx)
    ELSE IF Truthy(tx.data) /\ StartsWith(tx.data, "transfer")
    THEN process_dpa_transfer(st, tx)
    ELSE process_currency(st, tx)

RECURSIVE ApplyAll(_, _)
ApplyAll(st, txs) ==
    IF Len(txs) = 0 THEN st
    ELSE ApplyAll(process_transaction(st, txs[1]), Tail(txs))

commit_block_reversed(st, block) ==
    ApplyAll(st, [i \in 1..Len(block.transactions) |->
                    block.transactions[Len(block.transactions) + 1 - i]])

commit_block(st, block) == ApplyAll(st, block.transactions)

-----------------------------------------------------------------------------
(* core/tx_rules.py *)

validate_transaction_no_amount(mp, tx) ==
    IF \E i \in 1..Len(mp) : mp[i].sender = tx.sender /\ mp[i].nonce = tx.nonce
    THEN FALSE
    ELSE IF tx.sender = "" \/ tx.recipient = "" THEN FALSE
    ELSE TRUE

validate_transaction(mp, tx) ==
    IF \E i \in 1..Len(mp) : mp[i].sender = tx.sender /\ mp[i].nonce = tx.nonce
    THEN FALSE
    ELSE IF tx.amount <= 0 THEN FALSE
    ELSE IF tx.sender = "" \/ tx.recipient = "" THEN FALSE
    ELSE TRUE

-----------------------------------------------------------------------------
(* identity/validator.py, identity/registry.py, consensus/rotation.py *)

Validator(id) == [validator_id |-> id, public_key |-> "pk", stake |-> 0,
                  is_active |-> TRUE]

\* the keys of the registry dict
RegistryIds(reg) == {reg[i].validator_id : i \in 1..Len(reg)}

\* del self.validators[validator_id]
DictDel(reg, validator_id) ==
    LET keep == {i \in 1..Len(reg) : reg[i].validator_id # validator_id}
        Nth(k) == CHOOSE i \in keep : Cardinality({j \in keep : j < i}) = k - 1
    IN  [k \in 1..Cardinality(keep) |-> reg[Nth(k)]]

add_validator_overwrite(reg, validator_id, public_key, stake) ==
    LET v == [validator_id |-> validator_id, public_key |-> public_key,
              stake |-> stake, is_active |-> TRUE]
    IN  IF validator_id \in RegistryIds(reg)
        THEN [ok |-> FALSE,
              validators |-> [i \in 1..Len(reg) |->
                                IF reg[i].validator_id = validator_id THEN v
                                ELSE reg[i]]]
        ELSE [ok |-> TRUE, validators |-> Append(reg, v)]

\* ValidatorRegistry.add_validator: the result and the dict it leaves
add_validator(reg, validator_id, public_key, stake) ==
    IF validator_id \in RegistryIds(reg) THEN [ok |-> FALSE, validators |-> reg]
    ELSE [ok |-> TRUE,
          validators |-> Append(reg, [validator_id |-> validator_id,
                                       public_key |-> public_key,
                                       stake |-> stake, is_active |-> TRUE])]

\* ValidatorRegistry.remove_validator: the result and the dict it leaves
remove_validator(reg, validator_id) ==
    IF validator_id \notin RegistryIds(reg) THEN [ok |-> FALSE, validators |-> reg]
    ELSE [ok |-> TRUE, validators |-> DictDel(reg, validator_id)]

\* ValidatorRegistry.get_validators
get_validators(reg) == reg

\* str ordering of the validator ids in use
IdOrder == <<"v1", "v2", "v3">>
Rank(id) == CHOOSE i \in 1..Len(IdOrder) : IdOrder[i] = id

\* insert v after the last element whose key is <= v's key (stable)
RECURSIVE InsertSorted(_, _)
InsertSorted(sorted, v) ==
    IF Len(sorted) = 0 THEN <<v>>
    ELSE IF Rank(sorted[Len(sorted)].validator_id) <= Rank(v.validator_id)
    THEN Append(sorted, v)
    ELSE Append(InsertSorted(SubSeq(sorted, 1, Len(sorted) - 1), v),
                sorted[Len(sorted)])

\* sorted(validators, key=lambda v: v.validator_id)
RECURSIVE SortById(_)
SortById(vs) ==
    IF Len(vs) = 0 THEN <<>>
    ELSE InsertSorted(SortById(SubSeq(vs, 1, Len(vs) - 1)), vs[Len(vs)])

ProposerRotation_unsorted(validators) ==
    [validators |-> validators, num_validators |-> Len(validators)]

ProposerRotation(validators) ==
    [validators |-> SortById(validators), num_validators |-> Len(validators)]

\* Python None where a validator id is expected
NoneId == "None"

get_current_proposer(rot, block_height) ==
    IF Len(rot.validators) = 0 THEN NoneId
    ELSE rot.validators[((block_height - 1) % rot.num_validators) + 1].validator_id

-----------------------------------------------------------------------------
(* core/ledger.py *)

\* None where a block is expected, and where a transaction is expected
NoBlock == Block(BlockHeader(<<>>, <<>>, 0, NoneId, 0, NoneStr), <<>>)
NoTx == Transaction("", "", 0, NoneStr, 0, NoneStr)

get_latest_block(ch) == ch[Len(ch)]

InMempool(mp, tx_hash) == \E i \in 1..Len(mp) : hash_transaction(mp[i]) = tx_hash

add_transaction_unchecked(mp, tx) ==
    [ok |-> TRUE,
     mempool |-> IF InMempool(mp, hash_transaction(tx))
                 THEN [i \in 1..Len(mp) |->
                         IF hash_transaction(mp[i]) = hash_transaction(tx)
                         THEN tx ELSE mp[i]]
                 ELSE Append(mp, tx)]

add_transaction_insert_first(mp, tx) ==
    IF InMempool(mp, hash_transaction(tx)) THEN [ok |-> FALSE, mempool |-> mp]
    ELSE [ok |-> validate_transaction(mp, tx), mempool |-> Append(mp, tx)]

\* Ledger.add_transaction: the result and the mempool it leaves
add_transaction(mp, tx) ==
    IF InMempool(mp, hash_transaction(tx)) THEN [ok |-> FALSE, mempool |-> mp]
    ELSE IF ~validate_transaction(mp, tx) THEN [ok |-> FALSE, mempool |-> mp]
    ELSE [ok |-> TRUE, mempool |-> Append(mp, tx)]

mempool_keep(mp) == mp

\* self.mempool.clear()
mempool_clear(mp) == <<>>

propose_new_block_stale_prev(ch, mp, rot, proposer_id, ts) ==
    IF proposer_id # get_current_proposer(rot, get_latest_block(ch).header.nonce + 1)
    THEN [blk |-> NoBlock, mempool |-> mp]
    ELSE IF Len(mp) = 0 THEN [blk |-> NoBlock, mempool |-> mp]
    ELSE [blk |-> create_block(get_latest_block(ch).header.prev_hash, mp,
                               proposer_id, ts),
          mempool |-> <<>>]

propose_new_block_clear_first(ch, mp, rot, proposer_id, ts) ==
    IF proposer_id # get_current_proposer(rot, get_latest_block(ch).header.nonce + 1)
    THEN [blk |-> NoBlock, mempool |-> <<>>]
    ELSE IF Len(mp) = 0 THEN [blk |-> NoBlock, mempool |-> <<>>]
    ELSE [blk |-> create_block(hash_block_header(get_latest_block(ch).header), mp,
                               proposer_id, ts),
          mempool |-> <<>>]

propose_new_block_keep(ch, mp, rot, proposer_id, ts) ==
    IF proposer_id # get_current_proposer(rot, get_latest_block(ch).header.nonce + 1)
    THEN [blk |-> NoBlock, mempool |-> mp]
    ELSE IF Len(mp) = 0 THEN [blk |-> NoBlock, mempool |-> mp]
    ELSE [blk |-> create_block(hash_block_header(get_latest_block(ch).header), mp,
                               proposer_id, ts),
          mempool |-> mp]

\* Ledger.propose_new_block: the block returned and the mempool it leaves
propose_new_block(ch, mp, rot, proposer_id, ts) ==
    IF proposer_id # get_current_proposer(rot, get_latest_block(ch).header.nonce + 1)
    THEN [blk |-> NoBlock, mempool |-> mp]
    ELSE IF Len(mp) = 0 THEN [blk |-> NoBlock, mempool |-> mp]
    ELSE [blk |-> create_block(hash_block_header(get_latest_block(ch).header), mp,
                               proposer_id, ts),
          mempool |-> <<>>]

add_block_commit_first(ch, st, new_block) ==
    IF ~is_block_valid(new_block, get_latest_block(ch))
    THEN [ok |-> FALSE, chain |-> ch, state |-> commit_block(st, new_block)]
    ELSE [ok |-> TRUE, chain |-> Append(ch, new_block),
          state |-> commit_block(st, new_block)]

add_block_insert_first(ch, st, new_block) ==
    IF ~is_block_valid(new_block, get_latest_block(ch))
    THEN [ok |-> FALSE, chain |-> ch, state |-> st]
    ELSE [ok |-> TRUE, chain |-> <<new_block>> \o ch,
          state |-> commit_block(st, new_block)]

add_block_no_commit(ch, st, new_block) ==
    IF ~is_block_valid(new_block, get_latest_block(ch))
    THEN [ok |-> FALSE, chain |-> ch, state |-> st]
    ELSE [ok |-> TRUE, chain |-> Append(ch, new_block), state |-> st]

add_block_unvalidated(ch, st, new_block) ==
    [ok |-> is_block_valid(new_block, get_latest_block(ch)),
     chain |-> Append(ch, new_block), state |-> commit_block(st, new_block)]

\* Ledger.add_block: the result, the chain and the state-machine state it leaves
add_block(ch, st, new_block) ==
    IF ~is_block_valid(new_block, get_latest_block(ch))
    THEN [ok |-> FALSE, chain |-> ch, state |-> st]
    ELSE [ok |-> TRUE, chain |-> Append(ch, new_block),
          state |-> commit_block(st, new_block)]

-----------------------------------------------------------------------------
(* channels/htlc.py *)

\* dicts keyed by ids: d[k] = v and del d[k]
MapSet(d, k, v) == [x \in DOMAIN d \cup {k} |-> IF x = k THEN v ELSE d[x]]
MapDel(d, k) == [x \in DOMAIN d \ {k} |-> d[x]]

\* an address is the sequence of its 8-character pieces, so that addr[:8] is
\* its first piece
Prefix8(addr) == SubSeq(addr, 1, 1)

\* hashlib.sha256(preimage.encode()).hexdigest()
hash_preimage(preimage) == hash_data(preimage)

\* len(hash_lock) = 64: the string is a digest
IsDigest(h) == Len(h) >= 2 /\ h[1] = "sha256("

NoHtlcId == <<>>

\* HashedTimelockContract.__post_init__ raises ValueError
HtlcPostInitRaises(amount, hash_lock, time_lock) ==
    IF amount <= 0 THEN TRUE
    ELSE IF hash_lock = <<>> \/ ~IsDigest(hash_lock) THEN TRUE
    ELSE IF time_lock <= 0 THEN TRUE
    ELSE FALSE

\* obj is the identity of the Python object; the created_at, redeemed_at and
\* refunded_at stamps and the metadata are not read by any operation
HashedTimelockContract(obj, htlc_id, sender, receiver, amount, hash_lock, time_lock) ==
    [obj |-> obj, htlc_id |-> htlc_id, sender |-> sender, receiver |-> receiver,
     amount |-> amount, hash_lock |-> hash_lock, time_lock |-> time_lock,
     status |-> "PENDING", preimage |-> NoneStr]

NoHtlc == HashedTimelockContract(0, NoHtlcId, <<>>, <<>>, 0, <<>>, 0)

is_expired(htlc, current_block_height) == current_block_height >= htlc.time_lock

can_redeem(htlc, preimage, current_block_height) ==
    IF htlc.status # "COMMITTED" THEN FALSE
    ELSE IF is_expired(htlc, current_block_height) THEN FALSE
    ELSE hash_preimage(preimage) = htlc.hash_lock

can_refund(htlc, current_block_height) ==
    IF htlc.status # "COMMITTED" THEN FALSE
    ELSE is_expired(htlc, current_block_height)

redeem_unlocked(htlc, preimage, current_block_height) ==
    IF htlc.status # "COMMITTED" \/ is_expired(htlc, current_block_height)
    THEN [ok |-> FALSE, htlc |-> htlc]
    ELSE [ok |-> TRUE,
          htlc |-> [htlc EXCEPT !.preimage = preimage, !.status = "REDEEMED"]]

\* HashedTimelockContract.redeem
redeem(htlc, preimage, current_block_height) ==
    IF ~can_redeem(htlc, preimage, current_block_height)
    THEN [ok |-> FALSE, htlc |-> htlc]
    ELSE [ok |-> TRUE,
          htlc |-> [htlc EXCEPT !.preimage = preimage, !.status = "REDEEMED"]]

\* HashedTimelockContract.refund
refund(htlc, current_block_height) ==
    IF ~can_refund(htlc, current_block_height)
    THEN [ok |-> FALSE, htlc |-> htlc]
    ELSE [ok |-> TRUE, htlc |-> [htlc EXCEPT !.status = "REFUNDED"]]

\* HTLCManager.__init__
HTLCManager == [htlcs |-> <<>>, pending_htlcs |-> <<>>]

\* f"htlc_{datetime.now().timestamp()}_{sender[:8]}_{receiver[:8]}"
HtlcId(ts, sender, receiver) == <<"htlc", ts, Prefix8(sender), Prefix8(receiver)>>

\* HTLCManager.create_htlc at clock reading ts; obj is the new object's identity
create_htlc(m, obj, ts, sender, receiver, amount, hash_lock, time_lock) ==
    IF HtlcPostInitRaises(amount, hash_lock, time_lock)
    THEN [raised |-> TRUE, manager |-> m, htlc |-> NoHtlc]
    ELSE LET htlc == HashedTimelockContract(obj, HtlcId(ts, sender, receiver),
                                            sender, receiver, amount, hash_lock,
                                            time_lock)
         IN  [raised |-> FALSE,
              manager |-> [m EXCEPT !.pending_htlcs = MapSet(@, htlc.htlc_id, htlc)],
              htlc |-> htlc]

\* HTLCManager.commit_htlc
commit_htlc(m, htlc_id) ==
    IF htlc_id \notin DOMAIN m.pending_htlcs THEN [ok |-> FALSE, manager |-> m]
    ELSE LET htlc == [m.pending_htlcs[htlc_id] EXCEPT !.status = "COMMITTED"]
         IN  [ok |-> TRUE,
              manager |-> [htlcs |-> MapSet(m.htlcs, htlc_id, htlc),
                           pending_htlcs |-> MapDel(m.pending_htlcs, htlc_id)]]

\* HTLCManager.redeem_htlc
redeem_htlc(m, htlc_id, preimage, current_block_height) ==
    IF htlc_id \notin DOMAIN m.htlcs THEN [ok |-> FALSE, manager |-> m]
    ELSE LET r == redeem(m.htlcs[htlc_id], preimage, current_block_height)
         IN  [ok |-> r.ok, manager |-> [m EXCEPT !.htlcs[htlc_id] = r.htlc]]

\* HTLCManager.refund_htlc
refund_htlc(m, htlc_id, current_block_height) ==
    IF htlc_id \notin DOMAIN m.htlcs THEN [ok |-> FALSE, manager |-> m]
    ELSE LET r == refund(m.htlcs[htlc_id], current_block_height)
         IN  [ok |-> r.ok, manager |-> [m EXCEPT !.htlcs[htlc_id] = r.htlc]]

-----------------------------------------------------------------------------
(* crosschain/swap.py *)

\* secrets.token_hex(32): the n-th draw, different from every other draw
RECURSIVE generate_preimage(_)
generate_preimage(n) ==
    IF n = 0 THEN <<"secret">> ELSE Append(generate_preimage(n - 1), "'")

\* CrossChainSwap.__post_init__ raises ValueError
SwapPostInitRaises(initiator_amount, participant_amount, hash_lock, time_lock) ==
    IF initiator_amount <= 0 \/ participant_amount <= 0 THEN TRUE
    ELSE IF hash_lock = <<>> THEN TRUE
    ELSE IF time_lock <= 0 THEN TRUE
    ELSE FALSE

\* obj is the identity of the Python object; the created_at and completed_at
\* stamps and the metadata are not read by any operation
CrossChainSwap(obj, swap_id, initiator, participant, initiator_chain, participant_chain, initiator_amount, participant_amount, hash_lock, time_lock, preimage) ==
    [obj |-> obj, swap_id |-> swap_id, initiator |-> initiator,
     participant |-> participant,
     initiator_chain |-> initiator_chain, participant_chain |-> participant_chain,
     initiator_amount |-> initiator_amount,
     participant_amount |-> participant_amount,
     hash_lock |-> hash_lock, time_lock |-> time_lock, status |-> "INITIATED",
     initiator_htlc_id |-> NoHtlcId, participant_htlc_id |-> NoHtlcId,
     preimage |-> preimage]

\* f"swap_{datetime.now().timestamp()}_{initiator[:8]}_{participant[:8]}"
SwapId(ts, initiator, participant) ==
    <<"swap", ts, Prefix8(initiator), Prefix8(participant)>>

\* the result of an AtomicSwapManager operation: what it returns and the
\* managers and swaps it leaves
SwapResult(ok, ms, sws) == [ok |-> ok, managers |-> ms, swaps |-> sws]

\* AtomicSwapManager.initiate_swap at clock reading ts; obj is the new
\* object's identity and n the number of the secret drawn; the call returns
\* the swap, of which the result keeps the id
initiate_swap(sws, obj, n, ts, initiator, participant, initiator_chain, participant_chain, initiator_amount, participant_amount, time_lock) ==
    LET preimage == generate_preimage(n)
        hash_lock == hash_preimage(preimage)
        swap_id == SwapId(ts, initiator, participant)
    IN  IF SwapPostInitRaises(initiator_amount, participant_amount, hash_lock,
                              time_lock)
        THEN [raised |-> TRUE, swaps |-> sws, swap_id |-> NoHtlcId]
        ELSE [raised |-> FALSE,
              swaps |-> MapSet(sws, swap_id,
                               CrossChainSwap(obj, swap_id, initiator, participant,
                                              initiator_chain, participant_chain,
                                              initiator_amount, participant_amount,
                                              hash_lock, time_lock, preimage)),
              swap_id |-> swap_id]

\* AtomicSwapManager.lock_initiator_funds; obj and ts are the identity of the
\* HTLC object it creates and the clock reading of its id
lock_initiator_funds(ms, sws, obj, ts, swap_id) ==
    IF swap_id \notin DOMAIN sws THEN SwapResult(FALSE, ms, sws)
    ELSE LET swap == sws[swap_id] IN
    IF swap.status # "INITIATED" THEN SwapResult(FALSE, ms, sws)
    ELSE IF swap.initiator_chain \notin DOMAIN ms THEN SwapResult(FALSE, ms, sws)
    ELSE LET c == create_htlc(ms[swap.initiator_chain], obj, ts, swap.initiator,
                              swap.participant, swap.initiator_amount,
                              swap.hash_lock, swap.time_lock)
             k == commit_htlc(c.manager, c.htlc.htlc_id)
             ms2 == [ms EXCEPT ![swap.initiator_chain] = k.manager]
         IN  IF ~k.ok THEN SwapResult(FALSE, ms2, sws)
             ELSE SwapResult(TRUE, ms2,
                             [sws EXCEPT ![swap_id].initiator_htlc_id = c.htlc.htlc_id,
                                         ![swap_id].status = "LOCKED"])

\* AtomicSwapManager.lock_participant_funds
lock_participant_funds(ms, sws, obj, ts, swap_id) ==
    IF swap_id \notin DOMAIN sws THEN SwapResult(FALSE, ms, sws)
    ELSE LET swap == sws[swap_id] IN
    IF swap.status # "LOCKED" THEN SwapResult(FALSE, ms, sws)
    ELSE IF swap.participant_chain \notin DOMAIN ms THEN SwapResult(FALSE, ms, sws)
    ELSE LET c == create_htlc(ms[swap.participant_chain], obj, ts, swap.participant,
                              swap.initiator, swap.participant_amount,
                              swap.hash_lock, swap.time_lock)
             k == commit_htlc(c.manager, c.htlc.htlc_id)
             ms2 == [ms EXCEPT ![swap.participant_chain] = k.manager]
         IN  IF ~k.ok THEN SwapResult(FALSE, ms2, sws)
             ELSE SwapResult(TRUE, ms2,
                             [sws EXCEPT ![swap_id].participant_htlc_id =
                                             c.htlc.htlc_id])

\* AtomicSwapManager.complete_swap
complete_swap(ms, sws, swap_id, current_block_height) ==
    IF swap_id \notin DOMAIN sws THEN SwapResult(FALSE, ms, sws)
    ELSE LET swap == sws[swap_id] IN
    IF swap.participant_htlc_id = NoHtlcId THEN SwapResult(FALSE, ms, sws)
    ELSE LET p == redeem_htlc(ms[swap.participant_chain], swap.participant_htlc_id,
                              swap.preimage, current_block_height)
             ms2 == [ms EXCEPT ![swap.participant_chain] = p.manager]
         IN  IF ~p.ok THEN SwapResult(FALSE, ms2, sws)
             ELSE LET i == redeem_htlc(ms2[swap.initiator_chain],
                                       swap.initiator_htlc_id, swap.preimage,
                                       current_block_height)
                      ms3 == [ms2 EXCEPT ![swap.initiator_chain] = i.manager]
                  IN  IF ~i.ok THEN SwapResult(FALSE, ms3, sws)
                      ELSE SwapResult(TRUE, ms3,
                                      [sws EXCEPT ![swap_id].status = "COMPLETED"])

\* AtomicSwapManager.refund_swap
refund_swap(ms, sws, swap_id, current_block_height) ==
    IF swap_id \notin DOMAIN sws THEN SwapResult(FALSE, ms, sws)
    ELSE LET swap == sws[swap_id]
             i == IF swap.initiator_htlc_id # NoHtlcId
                  THEN refund_htlc(ms[swap.initiator_chain], swap.initiator_htlc_id,
                                   current_block_height)
                  ELSE [ok |-> FALSE, manager |-> HTLCManager]
             ms2 == IF swap.initiator_htlc_id # NoHtlcId
                    THEN [ms EXCEPT ![swap.initiator_chain] = i.manager] ELSE ms
             p == IF swap.participant_htlc_id # NoHtlcId
                  THEN refund_htlc(ms2[swap.participant_chain],
                                   swap.participant_htlc_id, current_block_height)
                  ELSE [ok |-> FALSE, manager |-> HTLCManager]
             ms3 == IF swap.participant_htlc_id # NoHtlcId
                    THEN [ms2 EXCEPT ![swap.participant_chain] = p.manager] ELSE ms2
             refunded == i.ok \/ p.ok
         IN  IF refunded
             THEN SwapResult(TRUE, ms3, [sws EXCEPT ![swap_id].status = "REFUNDED"])
             ELSE SwapResult(FALSE, ms3, sws)

-----------------------------------------------------------------------------
(* channels/state.py *)

\* a participant or channel id that names nothing
NoChannelId == <<>>

ChannelParticipant(participant_id, address, balance, is_initiator) ==
    [participant_id |-> participant_id, address |-> address,
     balance |-> balance, is_initiator |-> is_initiator]

\* balances and signatures are dicts keyed by participant_id; the timestamp
\* is read by no operation
ChannelStateUpdate(sequence_number, balances, signatures) ==
    [sequence_number |-> sequence_number, balances |-> balances,
     signatures |-> signatures]

\* {p.participant_id: p.balance for p in participants}: a later participant
\* with the same id replaces the earlier one's balance
RECURSIVE InitialBalances(_)
InitialBalances(participants) ==
    IF participants = <<>> THEN <<>>
    ELSE LET n == Len(participants) IN
         MapSet(InitialBalances(SubSeq(participants, 1, n - 1)),
                participants[n].participant_id, participants[n].balance)

\* sum(d.values())
RECURSIVE SumValues(_)
SumValues(d) ==
    IF DOMAIN d = {} THEN 0
    ELSE LET k == CHOOSE x \in DOMAIN d : TRUE IN d[k] + SumValues(MapDel(d, k))

\* StateChannel.__post_init__ raises ValueError
ChannelPostInitRaises(participants, initial_balances) ==
    \/ Len(participants) < 2
    \/ \E i \in 1..Len(participants) :
          participants[i].participant_id \notin DOMAIN initial_balances

\* a new StateChannel: channel_state takes the dataclass default
StateChannel(channel_id, participants, initial_balances, current_state, dispute_timeout) ==
    [channel_id |-> channel_id, participants |-> participants,
     initial_balances |-> initial_balances, current_state |-> current_state,
     channel_state |-> "OPENING", dispute_timeout |-> dispute_timeout]

is_valid_state_update(channel, new_state) ==
    /\ new_state.sequence_number = channel.current_state.sequence_number + 1
    /\ SumValues(channel.current_state.balances) = SumValues(new_state.balances)
    /\ \A i \in 1..Len(channel.participants) :
          channel.participants[i].participant_id \in DOMAIN new_state.balances

\* StateChannel.apply_state_update: [ok, channel]
apply_state_update(channel, new_state) ==
    IF ~is_valid_state_update(channel, new_state)
    THEN [ok |-> FALSE, channel |-> channel]
    ELSE IF Cardinality(DOMAIN new_state.signatures) < Len(channel.participants)
    THEN [ok |-> FALSE, channel |-> channel]
    ELSE IF \E p \in DOMAIN new_state.signatures : new_state.signatures[p] = ""
    THEN [ok |-> FALSE, channel |-> channel]
    ELSE [ok |-> TRUE, channel |-> [channel EXCEPT !.current_state = new_state]]

\* ChannelManager(): channels and pending_closures are empty dicts
ChannelManager == [channels |-> <<>>, pending_closures |-> <<>>]

\* f"channel_{datetime.now().timestamp()}"
ChannelId(ts) == <<"channel", ts>>

\* ChannelManager.create_channel at clock reading ts: [raised, manager,
\* channel_id]; the call returns the channel, of which the result keeps the id
create_channel(m, ts, participants, dispute_timeout) ==
    LET channel_id == ChannelId(ts)
        initial_balances == InitialBalances(participants)
        initial_state == ChannelStateUpdate(0, initial_balances, <<>>)
    IN  IF ChannelPostInitRaises(participants, initial_balances)
        THEN [raised |-> TRUE, manager |-> m, channel_id |-> NoChannelId]
        ELSE [raised |-> FALSE,
              manager |-> [m EXCEPT !.channels =
                              MapSet(@, channel_id,
                                     StateChannel(channel_id, participants,
                                                  initial_balances,
                                                  initial_state,
                                                  dispute_timeout))],
              channel_id |-> channel_id]

\* ChannelManager.update_channel_state: [ok, manager]. An entry of
\* pending_closures is the object channels holds under the id or one that
\* create_channel has replaced there; only an OPEN channel is changed here
\* and none of pending_closures is OPEN.
update_channel_state(m, channel_id, new_state) ==
    IF channel_id \notin DOMAIN m.channels
    THEN [ok |-> FALSE, manager |-> m]
    ELSE IF m.channels[channel_id].channel_state # "OPEN"
    THEN [ok |-> FALSE, manager |-> m]
    ELSE LET r == apply_state_update(m.channels[channel_id], new_state) IN
         IF r.ok
         THEN [ok |-> TRUE,
               manager |-> [m EXCEPT !.channels[channel_id] = r.channel]]
         ELSE [ok |-> FALSE, manager |-> m]

\* ChannelManager.initiate_channel_closure: [ok, manager]
initiate_channel_closure(m, channel_id, final_state) ==
    IF channel_id \notin DOMAIN m.channels
    THEN [ok |-> FALSE, manager |-> m]
    ELSE IF m.channels[channel_id].channel_state # "OPEN"
    THEN [ok |-> FALSE, manager |-> m]
    ELSE IF ~is_valid_state_update(m.channels[channel_id], final_state)
    THEN [ok |-> FALSE, manager |-> m]
    ELSE LET channel == [m.channels[channel_id] EXCEPT
                            !.channel_state = "CLOSING",
                            !.current_state = final_state]
         IN  [ok |-> TRUE,
              manager |-> [channels |-> MapSet(m.channels, channel_id, channel),
                           pending_closures |->
                               MapSet(m.pending_closures, channel_id, channel)]]

\* ChannelManager.finalize_channel_closure: [ok, manager]
finalize_channel_closure(m, channel_id) ==
    IF channel_id \notin DOMAIN m.pending_closures
    THEN [ok |-> FALSE, manager |-> m]
    ELSE LET channel == [m.pending_closures[channel_id] EXCEPT
                            !.channel_state = "CLOSED"]
         IN  [ok |-> TRUE,
              manager |-> [channels |-> MapSet(m.channels, channel_id, channel),
                           pending_closures |->
                               MapDel(m.pending_closures, channel_id)]]

\* no call on an off-ledger manager so far
NoCall == [op |-> "none", ok |-> FALSE, raised |-> FALSE, id |-> NoHtlcId,
           preimage |-> <<>>, height |-> 0]

OffCall(op, ok, raised, id, preimage, height) ==
    [op |-> op, ok |-> ok, raised |-> raised, id |-> id, preimage |-> preimage,
     height |-> height]

\* the off-ledger managers after construction
OffLedgerInit ==
    /\ chain_htlc_managers = <<>>
    /\ swaps = <<>>
    /\ created = 0
    /\ channels = <<>>
    /\ pending_closures = <<>>
    /\ call = NoCall

-----------------------------------------------------------------------------
(* Inputs *)

tAB    == Transaction("A", "B", 50, NoneStr, 1, NoneStr)
tIssue == Transaction("G", "A", 50, <<"issue", "d1">>, 1, NoneStr)
tXfer  == Transaction("A", "B", 20, <<"transfer", "d1">>, 2, NoneStr)
tZero  == Transaction("B", "A", 0, NoneStr, 1, NoneStr)
tNeg   == Transaction("B", "A", -5, NoneStr, 3, NoneStr)

\* transactions clients submit
SubmitTxs == {tAB, tXfer, tZero}

\* transaction lists of blocks handed to add_block without a proposal
DirectTxLists == {<<tNeg>>}

\* "0" * 64, the predecessor marker of a genesis block
GenesisPrev == <<"0">>

GenesisEmpty ==
    Block(BlockHeader(GenesisPrev, NoneHash, 0, "genesis", 0, NoneStr), <<>>)
GenesisFunded == create_block(GenesisPrev, <<tIssue>>, "genesis", 0)
\* a genesis header as callers write it by hand: merkle_root is a str ("0" * 64),
\* not the None that MerkleTree([]) computes for no transactions
GenesisZeroRoot ==
    Block(BlockHeader(GenesisPrev, <<"0">>, 0, "genesis", 0, NoneStr), <<>>)
GenesisBlocks == {GenesisEmpty, GenesisFunded, GenesisZeroRoot}

\* the registry a ledger is built with, in insertion order
InitRegistries == {<<Validator("v2"), Validator("v1")>>}

\* callers of propose_new_block and run_consensus_round
ProposerIds == {"v1", "v2", "vx"}

Threads == {1, 2}

\* mempool0 and chain0 are the mempool and the chain as they were when a
\* consensus round was entered; height, index and vals are the locals of the
\* calls on the rotation; sets holds the validator lists that were the
\* rotation's list at some time during a get_current_proposer call
Idle == [op |-> "idle", pc |-> "idle", p |-> NoneId, tx |-> NoTx, blk |-> NoBlock,
         txs |-> <<>>, latest |-> NoBlock, mempool0 |-> <<>>, chain0 |-> <<>>,
         height |-> 0, index |-> 0, vals |-> <<>>, sets |-> {}]

Call(op, ok, p, tx, blk) == [op |-> op, ok |-> ok, p |-> p, tx |-> tx, blk |-> blk]

\* time.time() in create_block: every block assembled reads a later time
Clock == {t \in {now} : t <= MaxClock}

\* blocks a caller can hand to add_block: the block of the last call (the one
\* just or just added), a copy of it with a tampered merkle_root, and
\* blocks assembled by hand: on the tip (valid, with a header nonce of 0 or 1)
\* and on a stale predecessor
Candidates ==
    LET tip == hash_block_header(get_latest_block(chain).header)
        Hand(ph, mr, n, txs) == Block(BlockHeader(ph, mr, now, "vx", n, NoneStr), txs)
    IN  {b \in {last.blk, [last.blk EXCEPT !.header.merkle_root = NoneHash]} :
            last.blk # NoBlock}
        \cup {Hand(tip, MerkleRoot(TxHashes(txs)), 0, txs) : txs \in DirectTxLists}
        \cup {Hand(tip, NoneHash, 1, <<>>),
              Hand(GenesisPrev, MerkleRoot(TxHashes(<<tNeg>>)), 0, <<tNeg>>)}

-----------------------------------------------------------------------------
(* The ledger, one call at a time *)

Init ==
    /\ \E g \in GenesisBlocks :
         /\ chain = <<g>>
         /\ accounts = commit_block(State(<<>>, 0), g).accounts
         /\ total_supply = commit_block(State(<<>>, 0), g).total_supply
    /\ mempool = <<>>
    /\ registry \in InitRegistries
    /\ rotation = ProposerRotation(registry)
    /\ now = 1
    /\ last = Call("init", TRUE, NoneId, NoTx, NoBlock)
    /\ threads = [t \in Threads |-> Idle]
    /\ accepted = {}
    /\ returned = {}
    /\ steps = 0
    /\ probe = NoProbe
    /\ OffLedgerInit

AddTransaction(tx) ==
    LET r == add_transaction(mempool, tx) IN
    /\ Len(r.mempool) <= MaxMempool
    /\ mempool' = r.mempool
    /\ last' = Call("add_transaction", r.ok, NoneId, tx, NoBlock)
    /\ UNCHANGED <<offledger, probe, chain, accounts, total_supply, registry, rotation, now,
                   threads, accepted, returned, steps>>

ProposeNewBlock(p) ==
    \E ts \in Clock :
        LET r == propose_new_block(chain, mempool, rotation, p, ts) IN
        /\ mempool' = r.mempool
        /\ now' = IF r.blk # NoBlock THEN ts + 1 ELSE now
        /\ last' = Call("propose_new_block", r.blk # NoBlock, p, NoTx, r.blk)
        /\ UNCHANGED <<offledger, probe, chain, accounts, total_supply, registry, rotation, threads,
                       accepted, returned, steps>>

AddBlock(b) ==
    LET r == add_block(chain, State(accounts, total_supply), b) IN
    /\ Len(r.chain) <= MaxChain
    /\ chain' = r.chain
    /\ accounts' = r.state.accounts
    /\ total_supply' = r.state.total_supply
    /\ last' = Call("add_block", r.ok, NoneId, NoTx, b)
    /\ UNCHANGED <<offledger, probe, mempool, registry, rotation, now, threads, accepted,
                   returned, steps>>

\* ConsensusEngine.run_consensus_round
RunConsensusRound(p) ==
    \E ts \in Clock :
        LET pr == propose_new_block(chain, mempool, rotation, p, ts)
            ar == add_block(chain, State(accounts, total_supply), pr.blk)
        IN  IF pr.blk = NoBlock
            THEN /\ last' = Call("run_consensus_round", FALSE, p, NoTx, NoBlock)
                 /\ UNCHANGED <<offledger, probe, chain, mempool, accounts, total_supply, registry,
                                rotation, now, threads, accepted,
                                returned, steps>>
            ELSE /\ Len(ar.chain) <= MaxChain
                 /\ mempool' = pr.mempool
                 /\ now' = ts + 1
                 /\ chain' = ar.chain
                 /\ accounts' = ar.state.accounts
                 /\ total_supply' = ar.state.total_supply
                 /\ last' = Call("run_consensus_round", ar.ok, p, NoTx, pr.blk)
                 /\ UNCHANGED <<offledger, probe, registry, rotation, threads, accepted,
                                returned, steps>>

Next ==
    \/ \E tx \in SubmitTxs : AddTransaction(tx)
    \/ \E p \in ProposerIds : ProposeNewBlock(p)
    \/ \E b \in Candidates : AddBlock(b)
    \/ \E p \in ProposerIds : RunConsensusRound(p)

Spec == Init /\ [][Next]_vars

-----------------------------------------------------------------------------
(* Consensus rounds only: clients submit, the engine runs rounds *)

NextRounds ==
    \/ \E tx \in SubmitTxs : AddTransaction(tx)
    \/ \E p \in ProposerIds : RunConsensusRound(p)

SpecRounds == Init /\ [][NextRounds]_vars

-----------------------------------------------------------------------------
(* The state machine alone: process_transaction on arbitrary transactions *)

StateTxs ==
    {Transaction(s, r, a, d, 1, NoneStr) :
        s \in {"A", "B"}, r \in {"A", "B"}, a \in {-1, 1, 2},
        d \in {NoneStr, <<"issue", "d1">>, <<"transfer", "d1">>}}

InitState ==
    /\ chain = <<GenesisEmpty>>
    /\ accounts = <<>>
    /\ total_supply = 0
    /\ mempool = <<>>
    /\ registry \in InitRegistries
    /\ rotation = ProposerRotation(registry)
    /\ now = 1
    /\ last = Call("init", TRUE, NoneId, NoTx, NoBlock)
    /\ threads = [t \in Threads |-> Idle]
    /\ accepted = {}
    /\ returned = {}
    /\ steps = 0
    /\ probe = NoProbe
    /\ OffLedgerInit

ProcessTransaction(tx) ==
    LET st == process_transaction(State(accounts, total_supply), tx) IN
    /\ steps < MaxSteps
    /\ steps' = steps + 1
    /\ accounts' = st.accounts
    /\ total_supply' = st.total_supply
    /\ last' = Call("process_transaction", TRUE, NoneId, tx, NoBlock)
    /\ UNCHANGED <<offledger, probe, chain, mempool, registry, rotation, now, threads, accepted,
                   returned>>

NextState == \E tx \in StateTxs : ProcessTransaction(tx)

SpecState == InitState /\ [][NextState]_vars

-----------------------------------------------------------------------------
(* The ledger called from several threads: the code takes no lock, so a call
   is a sequence of steps, one per access to the shared chain, mempool or
   state, and the steps of different calls interleave *)

InCall(op) == {t \in Threads : threads[t].op = op}

Enter(t, op, pc, p, tx, blk) ==
    /\ threads[t].op = "idle"
    /\ steps < MaxCalls
    /\ steps' = steps + 1
    /\ threads' = [threads EXCEPT ![t] = [Idle EXCEPT !.op = op, !.pc = pc, !.p = p,
                                                      !.tx = tx, !.blk = blk]]

At(t, pc) == threads[t].pc = pc
Goto(t, pc) == threads' = [threads EXCEPT ![t].pc = pc]
Return(t) == threads' = [threads EXCEPT ![t] = Idle]

\* self.mempool[tx_hash] = tx: a new key goes to the end, an existing key
\* keeps its place
DictSet(mp, tx) ==
    IF InMempool(mp, hash_transaction(tx))
    THEN [i \in 1..Len(mp) |->
            IF hash_transaction(mp[i]) = hash_transaction(tx) THEN tx ELSE mp[i]]
    ELSE Append(mp, tx)

\* blocks handed to add_block: the ones propose_new_block returned, and one
\* assembled by hand on the tip
ConcCandidates ==
    returned
    \cup {Block(BlockHeader(hash_block_header(get_latest_block(chain).header),
                            MerkleRoot(TxHashes(<<tNeg>>)), now, "vx", 0, NoneStr),
                <<tNeg>>)}

CallAddTransaction(t, tx) ==
    /\ Enter(t, "add_transaction", "at_dup", NoneId, tx, NoBlock)
    /\ UNCHANGED <<offledger, probe, chain, mempool, accounts, total_supply, registry, rotation, now,
                   last, accepted, returned>>

\* ledger.py 39-42
AtCheckDup(t) ==
    /\ At(t, "at_dup")
    /\ IF InMempool(mempool, hash_transaction(threads[t].tx))
       THEN Return(t) ELSE Goto(t, "at_validate")
    /\ UNCHANGED <<offledger, probe, chain, mempool, accounts, total_supply, registry, rotation, now,
                   last, accepted, returned, steps>>

\* ledger.py 45-46
AtValidate(t) ==
    /\ At(t, "at_validate")
    /\ IF ~validate_transaction(mempool, threads[t].tx)
       THEN Return(t) ELSE Goto(t, "at_insert")
    /\ UNCHANGED <<offledger, probe, chain, mempool, accounts, total_supply, registry, rotation, now,
                   last, accepted, returned, steps>>

\* ledger.py 48-50
AtInsert(t) ==
    /\ At(t, "at_insert")
    /\ mempool' = DictSet(mempool, threads[t].tx)
    /\ accepted' = accepted \cup {threads[t].tx}
    /\ Return(t)
    /\ UNCHANGED <<offledger, probe, chain, accounts, total_supply, registry, rotation, now, last,
                   returned, steps>>

CallProposeNewBlock(t, p) ==
    /\ now + Cardinality(InCall("propose_new_block")) <= MaxClock
    /\ Enter(t, "propose_new_block", "pr_check", p, NoTx, NoBlock)
    /\ UNCHANGED <<offledger, probe, chain, mempool, accounts, total_supply, registry, rotation, now,
                   last, accepted, returned>>

\* ledger.py 56-58
PrCheck(t) ==
    /\ At(t, "pr_check")
    /\ IF threads[t].p
            # get_current_proposer(rotation, get_latest_block(chain).header.nonce + 1)
       THEN Return(t) ELSE Goto(t, "pr_latest")
    /\ UNCHANGED <<offledger, probe, chain, mempool, accounts, total_supply, registry, rotation, now,
                   last, accepted, returned, steps>>

\* ledger.py 60
PrLatest(t) ==
    /\ At(t, "pr_latest")
    /\ threads' = [threads EXCEPT ![t].latest = get_latest_block(chain),
                                  ![t].pc = "pr_snapshot"]
    /\ UNCHANGED <<offledger, probe, chain, mempool, accounts, total_supply, registry, rotation, now,
                   last, accepted, returned, steps>>

\* ledger.py 61-71
PrSnapshot(t) ==
    /\ At(t, "pr_snapshot")
    /\ IF Len(mempool) = 0
       THEN Return(t) /\ now' = now
       ELSE /\ threads' = [threads EXCEPT
                    ![t].txs = mempool,
                    ![t].blk = create_block(hash_block_header(threads[t].latest.header),
                                            mempool, threads[t].p, now),
                    ![t].pc = "pr_clear"]
            /\ now' = now + 1
    /\ UNCHANGED <<offledger, probe, chain, mempool, accounts, total_supply, registry, rotation, last,
                   accepted, returned, steps>>

\* ledger.py 74-76
PrClear(t) ==
    /\ At(t, "pr_clear")
    /\ mempool' = <<>>
    /\ returned' = returned \cup {threads[t].blk}
    /\ Return(t)
    /\ UNCHANGED <<offledger, probe, chain, accounts, total_supply, registry, rotation, now, last,
                   accepted, steps>>

CallAddBlock(t, b) ==
    /\ Len(chain) + Cardinality(InCall("add_block")) < MaxChain
    /\ Enter(t, "add_block", "ab_validate", NoneId, NoTx, b)
    /\ UNCHANGED <<offledger, probe, chain, mempool, accounts, total_supply, registry, rotation, now,
                   last, accepted, returned>>

\* ledger.py 82-85
AbValidate(t) ==
    /\ At(t, "ab_validate")
    /\ IF ~is_block_valid(threads[t].blk, get_latest_block(chain))
       THEN Return(t) ELSE Goto(t, "ab_append")
    /\ UNCHANGED <<offledger, probe, chain, mempool, accounts, total_supply, registry, rotation, now,
                   last, accepted, returned, steps>>

\* ledger.py 87
AbAppend(t) ==
    /\ At(t, "ab_append")
    /\ chain' = Append(chain, threads[t].blk)
    /\ Goto(t, "ab_commit")
    /\ UNCHANGED <<offledger, probe, mempool, accounts, total_supply, registry, rotation, now, last,
                   accepted, returned, steps>>

\* ledger.py 88-90
AbCommit(t) ==
    LET st == commit_block(State(accounts, total_supply), threads[t].blk) IN
    /\ At(t, "ab_commit")
    /\ accounts' = st.accounts
    /\ total_supply' = st.total_supply
    /\ Return(t)
    /\ UNCHANGED <<offledger, probe, chain, mempool, registry, rotation, now, last, accepted,
                   returned, steps>>

NextConc ==
    \E t \in Threads :
        \/ \E tx \in SubmitTxs : CallAddTransaction(t, tx)
        \/ AtCheckDup(t)
        \/ AtValidate(t)
        \/ AtInsert(t)
        \/ \E p \in ProposerIds : CallProposeNewBlock(t, p)
        \/ PrCheck(t)
        \/ PrLatest(t)
        \/ PrSnapshot(t)
        \/ PrClear(t)
        \/ \E b \in ConcCandidates : CallAddBlock(t, b)
        \/ AbValidate(t)
        \/ AbAppend(t)
        \/ AbCommit(t)

SpecConc == Init /\ [][NextConc]_vars

-----------------------------------------------------------------------------
(* A consensus round racing with add_block: thread 1 runs rounds, one step per
   access to the shared chain, mempool or state; thread 2 hands blocks to
   add_block in between; clients submit while no round is in flight *)

RoundThread == 1
BlockThread == 2

\* what clients submit and who asks for a round
RaceTxs == {tAB}
RaceProposers == {"v1", "v2"}

SubmitBetweenRounds(tx) ==
    /\ InCall("run_consensus_round") = {}
    /\ AddTransaction(tx)

\* consensus.py 16-30
CallRunConsensusRound(t, p) ==
    /\ t = RoundThread
    /\ threads[t].op = "idle"
    /\ now <= MaxClock
    /\ Len(chain) + Cardinality(InCall("add_block")) < MaxChain
    /\ steps < MaxCalls
    /\ steps' = steps + 1
    /\ threads' = [threads EXCEPT ![t] =
                      [Idle EXCEPT !.op = "run_consensus_round", !.pc = "rc_check",
                                   !.p = p, !.mempool0 = mempool, !.chain0 = chain]]
    /\ UNCHANGED <<offledger, probe, chain, mempool, accounts, total_supply, registry,
                   rotation, now, last, accepted, returned>>

\* run_consensus_round returns
RoundReturn(t, ok) ==
    /\ threads' = [threads EXCEPT ![t] = Idle]
    /\ last' = Call("run_consensus_round", ok, threads[t].p, NoTx, threads[t].blk)

\* ledger.py 56-58, consensus.py 32-34
RcCheck(t) ==
    /\ At(t, "rc_check")
    /\ IF threads[t].p
            # get_current_proposer(rotation, get_latest_block(chain).header.nonce + 1)
       THEN RoundReturn(t, FALSE)
       ELSE Goto(t, "rc_latest") /\ last' = last
    /\ UNCHANGED <<offledger, probe, chain, mempool, accounts, total_supply, registry,
                   rotation, now, accepted, returned, steps>>

\* ledger.py 60
RcLatest(t) ==
    /\ At(t, "rc_latest")
    /\ threads' = [threads EXCEPT ![t].latest = get_latest_block(chain),
                                  ![t].pc = "rc_snapshot"]
    /\ UNCHANGED <<offledger, probe, chain, mempool, accounts, total_supply, registry,
                   rotation, now, last, accepted, returned, steps>>

\* ledger.py 61-71, consensus.py 32-34
RcSnapshot(t) ==
    /\ At(t, "rc_snapshot")
    /\ IF Len(mempool) = 0
       THEN RoundReturn(t, FALSE) /\ now' = now
       ELSE /\ threads' = [threads EXCEPT
                    ![t].txs = mempool,
                    ![t].blk = create_block(hash_block_header(threads[t].latest.header),
                                            mempool, threads[t].p, now),
                    ![t].pc = "rc_clear"]
            /\ now' = now + 1
            /\ last' = last
    /\ UNCHANGED <<offledger, probe, chain, mempool, accounts, total_supply, registry,
                   rotation, accepted, returned, steps>>

\* ledger.py 74-76
RcClear(t) ==
    /\ At(t, "rc_clear")
    /\ mempool' = mempool_clear(mempool)
    /\ Goto(t, "rc_validate")
    /\ UNCHANGED <<offledger, probe, chain, accounts, total_supply, registry, rotation, now,
                   last, accepted, returned, steps>>

\* consensus.py 40-43, ledger.py 82-85
RcValidate(t) ==
    /\ At(t, "rc_validate")
    /\ IF ~is_block_valid(threads[t].blk, get_latest_block(chain))
       THEN RoundReturn(t, FALSE)
       ELSE Goto(t, "rc_append") /\ last' = last
    /\ UNCHANGED <<offledger, probe, chain, mempool, accounts, total_supply, registry,
                   rotation, now, accepted, returned, steps>>

\* ledger.py 87
RcAppend(t) ==
    /\ At(t, "rc_append")
    /\ chain' = Append(chain, threads[t].blk)
    /\ Goto(t, "rc_commit")
    /\ UNCHANGED <<offledger, probe, mempool, accounts, total_supply, registry, rotation, now,
                   last, accepted, returned, steps>>

\* ledger.py 88-90, consensus.py 48-49
RcCommit(t) ==
    LET st == commit_block(State(accounts, total_supply), threads[t].blk) IN
    /\ At(t, "rc_commit")
    /\ accounts' = st.accounts
    /\ total_supply' = st.total_supply
    /\ RoundReturn(t, TRUE)
    /\ UNCHANGED <<offledger, probe, chain, mempool, registry, rotation, now, accepted,
                   returned, steps>>

NextRace ==
    \/ \E tx \in RaceTxs : SubmitBetweenRounds(tx)
    \/ \E t \in Threads :
          \/ \E p \in RaceProposers : CallRunConsensusRound(t, p)
          \/ RcCheck(t)
          \/ RcLatest(t)
          \/ RcSnapshot(t)
          \/ RcClear(t)
          \/ RcValidate(t)
          \/ RcAppend(t)
          \/ RcCommit(t)
          \/ \E b \in ConcCandidates : t = BlockThread /\ CallAddBlock(t, b)
          \/ AbValidate(t)
          \/ AbAppend(t)
          \/ AbCommit(t)

SpecRace == InitState /\ [][NextRace]_vars

-----------------------------------------------------------------------------
(* The registry the ledger was built with changes while clients submit and
   validators propose *)

RegistryIdInputs == {"v1", "v2", "v3"}
RegistryKeyInputs == {"pk", "pk2"}

AddValidator(validator_id, public_key) ==
    LET r == add_validator(registry, validator_id, public_key, 0) IN
    /\ registry' = r.validators
    /\ last' = Call("add_validator", r.ok, validator_id, NoTx, NoBlock)
    /\ UNCHANGED <<offledger, probe, chain, mempool, accounts, total_supply, rotation, now,
                   threads, accepted, returned, steps>>

RemoveValidator(validator_id) ==
    LET r == remove_validator(registry, validator_id) IN
    /\ registry' = r.validators
    /\ last' = Call("remove_validator", r.ok, validator_id, NoTx, NoBlock)
    /\ UNCHANGED <<offledger, probe, chain, mempool, accounts, total_supply, rotation, now,
                   threads, accepted, returned, steps>>

NextRegistry ==
    \/ \E tx \in RaceTxs : AddTransaction(tx)
    \/ \E p \in ProposerIds : ProposeNewBlock(p)
    \/ \E id \in RegistryIdInputs, pk \in RegistryKeyInputs : AddValidator(id, pk)
    \/ \E id \in RegistryIdInputs : RemoveValidator(id)

SpecRegistry == InitState /\ [][NextRegistry]_vars

-----------------------------------------------------------------------------
(* The rotation called from several threads: get_current_proposer reads
   self.validators, self.num_validators and self.validators again,
   update_validators writes self.validators and then self.num_validators, and
   nothing keeps the steps of one call together *)

\* the lists handed to update_validators
UpdateSets ==
    {<<>>, <<Validator("v1")>>, <<Validator("v3"), Validator("v1"), Validator("v2")>>}

\* the validator lists an update has replaced but not yet finished replacing
ListsBeingReplaced ==
    {threads[u].vals : u \in {t \in Threads : threads[t].pc = "uv_num"}}

CallGetCurrentProposer(t, block_height) ==
    /\ threads[t].op = "idle"
    /\ steps < MaxCalls
    /\ steps' = steps + 1
    /\ threads' = [threads EXCEPT ![t] =
                      [Idle EXCEPT !.op = "get_current_proposer", !.pc = "gp_check",
                                   !.height = block_height,
                                   !.sets = {rotation.validators}
                                            \cup ListsBeingReplaced]]
    /\ UNCHANGED <<offledger, probe, chain, mempool, accounts, total_supply, registry,
                   rotation, now, last, accepted, returned>>

\* get_current_proposer returns or raises
ProposerReturn(t, ok, result) ==
    /\ threads' = [threads EXCEPT ![t] = Idle]
    /\ last' = Call("get_current_proposer", ok, result, NoTx, NoBlock)

\* rotation.py 19-20
GpCheck(t) ==
    /\ At(t, "gp_check")
    /\ IF Len(rotation.validators) = 0
       THEN ProposerReturn(t, TRUE, NoneId)
       ELSE Goto(t, "gp_index") /\ last' = last
    /\ UNCHANGED <<offledger, probe, chain, mempool, accounts, total_supply, registry,
                   rotation, now, accepted, returned, steps>>

\* rotation.py 22
GpIndex(t) ==
    /\ At(t, "gp_index")
    /\ IF rotation.num_validators = 0
       THEN ProposerReturn(t, FALSE, "ZeroDivisionError")
       ELSE /\ threads' = [threads EXCEPT
                    ![t].index = (threads[t].height - 1) % rotation.num_validators,
                    ![t].pc = "gp_read"]
            /\ last' = last
    /\ UNCHANGED <<offledger, probe, chain, mempool, accounts, total_supply, registry,
                   rotation, now, accepted, returned, steps>>

\* rotation.py 23
GpRead(t) ==
    /\ At(t, "gp_read")
    /\ IF threads[t].index >= Len(rotation.validators)
       THEN ProposerReturn(t, FALSE, "IndexError")
       ELSE ProposerReturn(t, TRUE,
                           rotation.validators[threads[t].index + 1].validator_id)
    /\ UNCHANGED <<offledger, probe, chain, mempool, accounts, total_supply, registry,
                   rotation, now, accepted, returned, steps>>

CallUpdateValidators(t, new_validators) ==
    /\ threads[t].op = "idle"
    /\ steps < MaxCalls
    /\ steps' = steps + 1
    /\ threads' = [threads EXCEPT ![t] =
                      [Idle EXCEPT !.op = "update_validators", !.pc = "uv_validators",
                                   !.vals = new_validators]]
    /\ UNCHANGED <<offledger, probe, chain, mempool, accounts, total_supply, registry,
                   rotation, now, last, accepted, returned>>

\* rotation.py 29; the calls of get_current_proposer in flight have now lived
\* through the old list and the new one; vals keeps the list replaced
UvValidators(t) ==
    /\ At(t, "uv_validators")
    /\ rotation' = [rotation EXCEPT !.validators = SortById(threads[t].vals)]
    /\ threads' = [u \in Threads |->
                      IF u = t
                      THEN [threads[t] EXCEPT !.pc = "uv_num",
                                              !.vals = rotation.validators]
                      ELSE IF threads[u].op = "get_current_proposer"
                      THEN [threads[u] EXCEPT
                              !.sets = @ \cup {SortById(threads[t].vals)}]
                      ELSE threads[u]]
    /\ UNCHANGED <<offledger, probe, chain, mempool, accounts, total_supply, registry, now,
                   last, accepted, returned, steps>>

\* rotation.py 30
UvNum(t) ==
    /\ At(t, "uv_num")
    /\ rotation' = [rotation EXCEPT !.num_validators = Len(rotation.validators)]
    /\ Return(t)
    /\ UNCHANGED <<offledger, probe, chain, mempool, accounts, total_supply, registry, now,
                   last, accepted, returned, steps>>

NextRotation ==
    \E t \in Threads :
        \/ \E h \in 1..MaxHeight : CallGetCurrentProposer(t, h)
        \/ GpCheck(t)
        \/ GpIndex(t)
        \/ GpRead(t)
        \/ \E vs \in UpdateSets : CallUpdateValidators(t, vs)
        \/ UvValidators(t)
        \/ UvNum(t)

SpecRotation == InitState /\ [][NextRotation]_vars

-----------------------------------------------------------------------------
(* The rotation alone: built from every list of distinct validators, in
   every order of supply, and asked for the proposer of a height *)

ValidatorLists ==
    {vs \in UNION {[1..n -> {Validator(id) : id \in RegistryIdInputs}] :
                      n \in 0..Cardinality(RegistryIdInputs)} :
        \A i, j \in 1..Len(vs) : i # j => vs[i].validator_id # vs[j].validator_id}

InitProposer ==
    /\ chain = <<GenesisEmpty>>
    /\ accounts = <<>>
    /\ total_supply = 0
    /\ mempool = <<>>
    /\ registry \in ValidatorLists
    /\ rotation = ProposerRotation(get_validators(registry))
    /\ now = 1
    /\ last = Call("init", TRUE, NoneId, NoTx, NoBlock)
    /\ threads = [t \in Threads |-> Idle]
    /\ accepted = {}
    /\ returned = {}
    /\ steps = 0
    /\ probe = NoProbe
    /\ OffLedgerInit

GetCurrentProposer(block_height) ==
    /\ probe' = [NoProbe EXCEPT
                    !.op = "get_current_proposer",
                    !.height = block_height,
                    !.result = get_current_proposer(rotation, block_height)]
    /\ UNCHANGED <<offledger, chain, mempool, accounts, total_supply, registry, rotation, now,
                   last, threads, accepted, returned, steps>>

NextProposer == \E h \in 1..MaxHeight : GetCurrentProposer(h)

SpecProposer == InitProposer /\ [][NextProposer]_vars

-----------------------------------------------------------------------------
(* Proposals: clients submit, validators and others ask for a proposal, and
   the block proposed last is handed to add_block *)

ProposedCandidates == {b \in {last.blk} : last.blk # NoBlock}

NextPropose ==
    \/ \E tx \in SubmitTxs : AddTransaction(tx)
    \/ \E p \in ProposerIds : ProposeNewBlock(p)
    \/ \E b \in ProposedCandidates : AddBlock(b)

SpecPropose == InitState /\ [][NextPropose]_vars

-----------------------------------------------------------------------------
(* Admission: clients submit well-formed and malformed transactions, signed
   and unsigned; blocks handed to add_block move balances meanwhile *)

\* well-formed transactions, unsigned and signed
WellFormedTxs ==
    {Transaction(s, "B", 50, NoneStr, n, sig) :
        s \in {"A", "B"}, n \in {1, 2}, sig \in {NoneStr, <<"s1">>}}

\* transactions with a missing address or an amount that is not positive
MalformedTxs ==
    {Transaction("", "B", 50, NoneStr, 1, NoneStr),
     Transaction("A", "", 50, NoneStr, 1, NoneStr),
     Transaction("A", "B", 0, NoneStr, 1, NoneStr),
     Transaction("A", "B", -5, NoneStr, 2, NoneStr)}

AdmitTxs == WellFormedTxs \cup MalformedTxs

NextAdmit ==
    \/ \E tx \in AdmitTxs : AddTransaction(tx)
    \/ \E b \in ConcCandidates : AddBlock(b)

SpecAdmit == InitState /\ [][NextAdmit]_vars

-----------------------------------------------------------------------------
(* Merkle proofs: a full node holds a block, a proof is asked of the tree over
   the block's transaction hashes and verified, directly and by a light
   client that holds the headers *)

MerkleTxs == {tAB, tXfer, tIssue}

MerkleTxLists == UNION {[1..n -> MerkleTxs] : n \in 1..MaxLeaves}

\* the tree create_block and is_block_valid build over a block
BlockTree(b) == MerkleTree(TxHashes(b.transactions))

\* what callers pass as data_hash: the hash of a transaction of the block, or
\* a leaf of the tree
ProofQueries(b) ==
    {hash_transaction(b.transactions[i]) : i \in 1..Len(b.transactions)}
    \cup {BlockTree(b).leaves[i] : i \in 1..Len(BlockTree(b).leaves)}

InitMerkle ==
    /\ \E txs \in MerkleTxLists :
         LET b == create_block(hash_block_header(GenesisEmpty.header), txs, "v1", 1)
             st == commit_block(State(<<>>, 0), b)
         IN  /\ chain = <<GenesisEmpty, b>>
             /\ accounts = st.accounts
             /\ total_supply = st.total_supply
    /\ mempool = <<>>
    /\ registry \in InitRegistries
    /\ rotation = ProposerRotation(registry)
    /\ now = 2
    /\ last = Call("init", TRUE, NoneId, NoTx, NoBlock)
    /\ threads = [t \in Threads |-> Idle]
    /\ accepted = {}
    /\ returned = {}
    /\ steps = 0
    /\ probe = NoProbe
    /\ OffLedgerInit

GetProof(data_hash) ==
    /\ probe' = [NoProbe EXCEPT !.op = "get_proof", !.data_hash = data_hash,
                                !.proof = get_proof(BlockTree(chain[2]), data_hash)]
    /\ UNCHANGED <<offledger, chain, mempool, accounts, total_supply, registry, rotation, now,
                   last, threads, accepted, returned, steps>>

VerifyProof ==
    /\ probe.op = "get_proof"
    /\ probe' = [probe EXCEPT
                    !.op = "verify_proof",
                    !.result = verify_proof(probe.data_hash, probe.proof,
                                            BlockTree(chain[2]).root)]
    /\ UNCHANGED <<offledger, chain, mempool, accounts, total_supply, registry, rotation, now,
                   last, threads, accepted, returned, steps>>

VerifyMerkleProof(block_hash) ==
    /\ probe.op = "get_proof"
    /\ probe' = [probe EXCEPT
                    !.op = "verify_merkle_proof",
                    !.block_hash = block_hash,
                    !.result = verify_merkle_proof(SPVHeaders(chain), probe.data_hash,
                                                   probe.proof, block_hash)]
    /\ UNCHANGED <<offledger, chain, mempool, accounts, total_supply, registry, rotation, now,
                   last, threads, accepted, returned, steps>>

NextMerkle ==
    \/ \E data_hash \in ProofQueries(chain[2]) : GetProof(data_hash)
    \/ VerifyProof
    \/ \E i \in 1..Len(chain) : VerifyMerkleProof(hash_block_header(chain[i].header))

SpecMerkle == InitMerkle /\ [][NextMerkle]_vars

-----------------------------------------------------------------------------
(* Properties *)

RECURSIVE SumOver(_, _)
SumOver(accs, addrs) ==
    IF addrs = {} THEN 0
    ELSE LET a == CHOOSE x \in addrs : TRUE
         IN  accs[a].balance + SumOver(accs, addrs \ {a})

\* the sum of all account balances
BalanceSum(accs) == SumOver(accs, DOMAIN accs)

IsIssue(tx) == Truthy(tx.data) /\ StartsWith(tx.data, "issue")

BalanceOf(accs, a) == IF a \in DOMAIN accs THEN accs[a].balance ELSE 0

\* the proposer of the next height when the height is the chain length
HeightProposer(ch, rot) ==
    rot.validators[((Len(ch) - 1) % rot.num_validators) + 1].validator_id

\* the validator after v in ascending validator_id order, wrapping around
NextValidator(rot, v) ==
    LET k == CHOOSE i \in 1..Len(rot.validators) : rot.validators[i].validator_id = v
    IN  rot.validators[(k % rot.num_validators) + 1].validator_id

\* C1: every block after genesis carries the hash of its predecessor's header
\* in prev_hash, whatever blocks were offered to add_block.
HashChainIntegrity ==
    \A i \in 2..Len(chain) :
        chain[i].header.prev_hash = hash_block_header(chain[i - 1].header)

\* C1 witness: the chain has two links and add_block has just rejected a block.
HashChainWitness ==
    Len(chain) >= 3 /\ last.op = "add_block" /\ ~last.ok

\* C2: whenever propose_new_block(p) returns a block (directly or inside a
\* consensus round), p is the validator at position (len(chain) - 1) mod N of
\* the sorted validators, in the state in which it was called.
ProposerIsHeightProposer ==
    [][(last'.op \in {"propose_new_block", "run_consensus_round"}
        /\ last'.blk # NoBlock)
       => last'.p = HeightProposer(chain, rotation)]_vars

\* C3: consecutive committed blocks are proposed by consecutive validators in
\* ascending validator_id order (wrapping around), so every validator gets
\* its turn.
ProposersTakeTurns ==
    rotation.num_validators >= 2
    => \A i \in 2..(Len(chain) - 1) :
          chain[i + 1].header.validator
            = NextValidator(rotation, chain[i].header.validator)

\* C4: add_block returns whether the block is valid against the tip; when it
\* returns False the chain, the mempool and the accounts are unchanged; when
\* it returns True the chain grew by exactly that block and the block's
\* transactions were committed.
AddBlockAllOrNothing ==
    [][last'.op = "add_block"
       => /\ last'.ok = is_block_valid(last'.blk, get_latest_block(chain))
          /\ mempool' = mempool
          /\ IF last'.ok
             THEN /\ chain' = Append(chain, last'.blk)
                  /\ State(accounts', total_supply')
                       = ApplyAll(State(accounts, total_supply),
                                  last'.blk.transactions)
             ELSE /\ chain' = chain
                  /\ accounts' = accounts
                  /\ total_supply' = total_supply]_vars

\* C4 witness: add_block accepted a block whose transaction moved balances.
AddBlockWitness ==
    /\ last.op = "add_block" /\ last.ok
    /\ last.blk.transactions = <<tNeg>>
    /\ BalanceOf(accounts, "B") = 5

\* C7: no transaction (by canonical hash) is contained in two blocks of the
\* chain.
NoTransactionInTwoBlocks ==
    \A i, j \in 1..Len(chain) :
        i < j =>
            \A k \in 1..Len(chain[i].transactions),
               l \in 1..Len(chain[j].transactions) :
                hash_transaction(chain[i].transactions[k])
                    # hash_transaction(chain[j].transactions[l])

\* C8: processing a transaction that is not an issuance leaves the sum of all
\* account balances unchanged.
TransfersConserveBalanceSum ==
    [][(last'.op = "process_transaction" /\ ~IsIssue(last'.tx))
       => BalanceSum(accounts') = BalanceSum(accounts)]_vars

\* C8 witness: a plain transfer has moved currency between two accounts.
TransferWitness ==
    /\ last.op = "process_transaction" /\ ~IsIssue(last.tx)
    /\ last.tx.data = NoneStr
    /\ BalanceOf(accounts, last.tx.recipient) # 0

\* C9 as stated: an issuance increases the sum of all account balances by
\* exactly tx.amount.
IssuanceIncreasesBalanceSum ==
    [][(last'.op = "process_transaction" /\ IsIssue(last'.tx))
       => BalanceSum(accounts') = BalanceSum(accounts) + last'.tx.amount]_vars

\* C9 as amended: an issuance increases total_supply by exactly tx.amount and
\* leaves the sum of all account balances unchanged.
IssuanceIncreasesTotalSupply ==
    [][(last'.op = "process_transaction" /\ IsIssue(last'.tx))
       => /\ total_supply' = total_supply + last'.tx.amount
          /\ BalanceSum(accounts') = BalanceSum(accounts)]_vars

\* C9 witness: an issuance has been processed and the recipient holds the DPA.
IssuanceWitness ==
    /\ last.op = "process_transaction" /\ IsIssue(last.tx)
    /\ last.tx.amount = 2
    /\ total_supply = 2
    /\ accounts[last.tx.recipient].dpas["d1"].amount = 2

\* the scenario: genesis pre-funds A by issuance, validators v1 and v2, the
\* plain transaction A -> B of 50 with nonce 1 is in the mempool
ScenarioStart ==
    /\ chain = <<GenesisFunded>>
    /\ {registry[i].validator_id : i \in 1..Len(registry)} = {"v1", "v2"}

\* what the scenario says up to B's balance: v1's proposal succeeds, holds the
\* transaction and empties the mempool; add_block of that block succeeds and
\* leaves B with the balance b
Scenario(b) ==
    /\ (ScenarioStart /\ mempool = <<tAB>>
        /\ last'.op = "propose_new_block" /\ last'.p = "v1")
       => /\ last'.ok
          /\ last'.blk.transactions = <<tAB>>
          /\ mempool' = <<>>
    /\ (ScenarioStart /\ last.op = "propose_new_block" /\ last.p = "v1"
        /\ last.ok /\ last.blk.transactions = <<tAB>>
        /\ last'.op = "add_block" /\ last'.blk = last.blk)
       => /\ last'.ok
          /\ BalanceOf(accounts', "B") = b

\* C10 as stated: at the end of the scenario B.balance == 50.
ScenarioPaysB == [][Scenario(50)]_vars

\* C10 as amended: at the end of the scenario the transfer was skipped for
\* insufficient balance (issuance funds a DPA, not the balance): B.balance == 0.
ScenarioSkipsTransfer == [][Scenario(0)]_vars

\* C10 witness: the scenario has run to its end.
ScenarioWitness ==
    /\ Len(chain) = 2 /\ chain[1] = GenesisFunded
    /\ chain[2].transactions = <<tAB>> /\ chain[2].header.validator = "v1"
    /\ last.op = "add_block" /\ last.ok /\ last.blk = chain[2]
    /\ mempool = <<>>
    /\ accounts["A"].dpas["d1"].amount = 50
    /\ accounts["B"].balance = 0

\* C5: under interleaved add_block calls the chain never holds the same block
\* twice and every block after genesis still links to its predecessor.
ConcurrentAddBlockSerialized ==
    /\ \A i, j \in 1..Len(chain) : i < j => chain[i] # chain[j]
    /\ \A i \in 2..Len(chain) :
          chain[i].header.prev_hash = hash_block_header(chain[i - 1].header)

\* C6: every transaction add_transaction accepted is still in the mempool or
\* in a block propose_new_block returned.
NoAcceptedTransactionLost ==
    \A tx \in accepted :
        \/ \E i \in 1..Len(mempool) : mempool[i] = tx
        \/ \E b \in returned : \E i \in 1..Len(b.transactions) : b.transactions[i] = tx

\* C11: account balances are never negative, whatever genesis block the
\* ledger was built with and whatever blocks add_block accepted, blocks handed
\* to it directly included.
BalancesNeverNegative ==
    \A a \in DOMAIN accounts : accounts[a].balance >= 0

\* the amount of asset dpa_id the account holds (0 without a record)
DpaAmount(accs, a, dpa_id) ==
    IF a \in DOMAIN accs /\ dpa_id \in DOMAIN accs[a].dpas
    THEN accs[a].dpas[dpa_id].amount ELSE 0

\* C12: an 'issue:<id>' transaction adds its amount to what the recipient
\* already holds of the asset <id>: after issues of a1 and a2 the recipient's
\* record for <id> has the amount a1 + a2.
DpaIssuesMergeAdditively ==
    [][(last'.op = "process_transaction" /\ IsIssue(last'.tx)
        /\ last'.tx.amount > 0)
       => DpaAmount(accounts', last'.tx.recipient, last'.tx.data[2])
            = DpaAmount(accounts, last'.tx.recipient, last'.tx.data[2])
              + last'.tx.amount]_vars

\* header.merkle_root is the root recomputed over the block's transactions
RootRecomputes(b) == b.header.merkle_root = MerkleRoot(TxHashes(b.transactions))

\* C13 as stated: every block of the chain, the genesis block included, has
\* the recomputed Merkle root in its header, and so has every block
\* propose_new_block returns.
MerkleRootOfEveryBlock ==
    /\ \A i \in 1..Len(chain) : RootRecomputes(chain[i])
    /\ (last.op = "propose_new_block" /\ last.ok) => RootRecomputes(last.blk)

\* C13 as amended: every block of the chain after the genesis block (which
\* the ledger takes as supplied) has the recomputed Merkle root in its header,
\* and so has every block propose_new_block returns.
MerkleRootOfAddedBlocks ==
    /\ \A i \in 2..Len(chain) : RootRecomputes(chain[i])
    /\ (last.op = "propose_new_block" /\ last.ok) => RootRecomputes(last.blk)

\* C13 witness: on a genesis whose root does not recompute, a block was
\* added and propose_new_block has returned the next one.
MerkleRootWitness ==
    /\ ~RootRecomputes(chain[1])
    /\ Len(chain) >= 2
    /\ last.op = "propose_new_block" /\ last.ok
    /\ Len(last.blk.transactions) >= 1

\* C14: is_block_valid(candidate, predecessor), as add_block calls it on the
\* tip, returns True exactly when the candidate's prev_hash is the hash of the
\* predecessor's header and its merkle_root is the root recomputed from its
\* transactions.
BlockValidIffLinkAndRoot ==
    [][last'.op = "add_block"
       => last'.ok
            = (/\ last'.blk.header.prev_hash
                    = hash_block_header(get_latest_block(chain).header)
               /\ RootRecomputes(last'.blk))]_vars

\* C14 witness: a candidate with the correct prev_hash and a merkle_root
\* different from the recomputed one has been rejected.
TamperedRootWitness ==
    /\ last.op = "add_block" /\ ~last.ok
    /\ last.blk.header.prev_hash = hash_block_header(get_latest_block(chain).header)
    /\ ~RootRecomputes(last.blk)
    /\ Len(last.blk.transactions) >= 1

IsTxHashOf(b, h) == \E i \in 1..Len(b.transactions) : hash_transaction(b.transactions[i]) = h

\* C15: for every transaction hash h of the list the tree was built from,
\* get_proof(h) returns a proof, verify_proof(h, proof, root) is True, and so
\* is the light client's verify_merkle_proof(h, proof, hash of the block).
MerkleProofRoundTrip ==
    IsTxHashOf(chain[2], probe.data_hash)
    => /\ probe.op = "get_proof" => probe.proof.found
       /\ probe.op = "verify_proof" => probe.result = "True"
       /\ (probe.op = "verify_merkle_proof"
           /\ probe.block_hash = hash_block_header(chain[2].header))
          => probe.result = "True"

MempoolHashesUnique(mp) ==
    \A i, j \in 1..Len(mp) :
        i < j => hash_transaction(mp[i]) # hash_transaction(mp[j])

\* C16: the mempool never holds two transactions with the same canonical
\* hash, and add_transaction of a transaction whose hash is already in the
\* mempool returns False and leaves the mempool as it was.
DuplicateSubmissionRejected ==
    [][/\ MempoolHashesUnique(mempool')
       /\ (last'.op = "add_transaction"
           /\ InMempool(mempool, hash_transaction(last'.tx)))
          => (~last'.ok /\ mempool' = mempool)]_vars

\* C16 witness: a signed copy of a transaction waiting unsigned in the mempool
\* (same canonical hash) has been submitted and rejected.
DuplicateSubmissionWitness ==
    /\ last.op = "add_transaction" /\ ~last.ok
    /\ last.tx.signature # NoneStr
    /\ \E i \in 1..Len(mempool) :
          /\ hash_transaction(mempool[i]) = hash_transaction(last.tx)
          /\ mempool[i].signature = NoneStr

\* C17: validate_transaction, as add_transaction calls it, returns False if a
\* transaction of the mempool has the same sender and nonce, or the amount is
\* <= 0, or the sender or the recipient is empty, and True in every other
\* case; balances play no part.
AdmissionResult ==
    [][last'.op = "add_transaction"
       => last'.ok
            = ~(\/ \E i \in 1..Len(mempool) :
                      /\ mempool[i].sender = last'.tx.sender
                      /\ mempool[i].nonce = last'.tx.nonce
                \/ last'.tx.amount <= 0
                \/ last'.tx.sender = ""
                \/ last'.tx.recipient = "")]_vars

\* C17 witness: a transaction of 50 was admitted from a sender whose balance
\* is 5.
InsufficientFundsAdmitted ==
    /\ last.op = "add_transaction" /\ last.ok
    /\ last.tx.sender = "B" /\ last.tx.amount = 50
    /\ BalanceOf(accounts, "B") = 5

\* ch0 is an initial segment of ch
IsPrefix(ch0, ch) == Len(ch0) <= Len(ch) /\ SubSeq(ch, 1, Len(ch0)) = ch0

InChain(ch, b) == \E i \in 1..Len(ch) : ch[i] = b

\* a consensus round of thread t returns False in this step
RoundFails(t) ==
    /\ threads[t].op = "run_consensus_round"
    /\ threads'[t].op = "idle"
    /\ ~last'.ok

ProposerFromCurrentRegistry ==
    [][(last'.op = "propose_new_block" /\ last'.ok)
       => last'.p = get_current_proposer(
                       ProposerRotation(get_validators(registry)),
                       get_latest_block(chain).header.nonce + 1)]_vars

\* C20: a get_current_proposer(h) that interleaves with update_validators
\* returns the proposer computed entirely from a list that was the rotation's
\* list during the call (the old one or the new one), never a mixture of one
\* list with the other's count, and never an error.
UpdateValidatorsAtomic ==
    [][\A t \in Threads :
         (threads[t].op = "get_current_proposer" /\ threads'[t].op = "idle")
         => /\ last'.ok
            /\ last'.p \in {get_current_proposer(ProposerRotation(vs),
                                                 threads[t].height) :
                               vs \in threads[t].sets}]_vars

\* the k-th smallest of a set of validator ids, k counting from 1
KthSmallestId(ids, k) ==
    CHOOSE x \in ids : Cardinality({y \in ids : Rank(y) < Rank(x)}) = k - 1

\* C21: for N > 0 validators get_current_proposer(h) is the id at position
\* (h - 1) mod N of the ids in ascending order, whatever the order of supply,
\* and get_current_proposer(h + N) is the same; for no validators it is None.
ProposerFormula ==
    probe.op = "get_current_proposer"
    => LET ids == RegistryIds(registry)
           N == Cardinality(ids)
       IN  IF N = 0 THEN probe.result = NoneId
           ELSE /\ probe.result = KthSmallestId(ids, ((probe.height - 1) % N) + 1)
                /\ get_current_proposer(rotation, probe.height + N) = probe.result

\* C21 witness: validators supplied as v3, v1, v2; height 5 gives v2.
ProposerFormulaWitness ==
    /\ probe.op = "get_current_proposer"
    /\ registry = <<Validator("v3"), Validator("v1"), Validator("v2")>>
    /\ probe.height = 5
    /\ probe.result = "v2"

\* C22: every block appended to the chain carries a header.validator that is
\* registered in the ValidatorRegistry when it is appended.
AppendedBlockByRegisteredValidator ==
    [][(last'.op \in {"add_block", "run_consensus_round"} /\ last'.ok)
       => last'.blk.header.validator \in RegistryIds(registry)]_vars

\* C23: add_validator with a registered id returns False, remove_validator
\* with an id that is not registered returns False, and both leave the
\* registry, public keys and stakes included, as it was.
RegistryErrorsDoNotMutate ==
    [][/\ (last'.op = "add_validator" /\ last'.p \in RegistryIds(registry))
          => (~last'.ok /\ registry' = registry)
       /\ (last'.op = "remove_validator" /\ last'.p \notin RegistryIds(registry))
          => (~last'.ok /\ registry' = registry)
       /\ (last'.op \in {"add_validator", "remove_validator"} /\ ~last'.ok)
          => registry' = registry]_vars

\* C23 witness: add_validator failed on an id registered with the public key
\* pk2, next to a validator registered with pk.
RegistryErrorWitness ==
    /\ last.op = "add_validator" /\ ~last.ok
    /\ \E i, j \in 1..Len(registry) :
          /\ registry[i].validator_id = last.p
          /\ registry[i].public_key = "pk2"
          /\ registry[j].public_key = "pk"

\* two records that differ at most in their signature field
SameButSignature(a, b) ==
    [a EXCEPT !.signature = NoneStr] = [b EXCEPT !.signature = NoneStr]

\* C24: a transaction that differs only in its signature from one in the
\* mempool has the same canonical hash and is rejected as a duplicate; a
\* header of the chain keeps its hash whatever signature is put on it.
SignatureExcludedFromIdentity ==
    [][/\ last'.op = "add_transaction"
          => \A i \in 1..Len(mempool) :
                SameButSignature(mempool[i], last'.tx)
                => /\ hash_transaction(mempool[i]) = hash_transaction(last'.tx)
                   /\ ~last'.ok
                   /\ mempool' = mempool
       /\ \A i \in 1..Len(chain') : \A sig \in {NoneStr, <<"s1">>} :
             hash_block_header([chain'[i].header EXCEPT !.signature = sig])
                = hash_block_header(chain'[i].header)]_vars

\* C24 witness: the unsigned copy of a signed transaction of the mempool has
\* been rejected, on a chain that holds an added block.
SignatureWitness ==
    /\ last.op = "add_transaction" /\ ~last.ok
    /\ last.tx.signature = NoneStr
    /\ \E i \in 1..Len(mempool) :
          /\ mempool[i].signature = <<"s1">>
          /\ SameButSignature(mempool[i], last.tx)
    /\ Len(chain) >= 2

\* C25: when add_transaction returns False the mempool, the chain, the
\* accounts with their DPAs and the total supply are what they were.
RejectedSubmissionMutatesNothing ==
    [][(last'.op = "add_transaction" /\ ~last'.ok)
       => /\ mempool' = mempool
          /\ chain' = chain
          /\ accounts' = accounts
          /\ total_supply' = total_supply]_vars

\* C25 witness: a transaction with a non-positive amount has been rejected
\* while the mempool holds a transaction and a block has moved balances.
RejectedSubmissionWitness ==
    /\ last.op = "add_transaction" /\ ~last.ok
    /\ last.tx.amount <= 0
    /\ Len(mempool) >= 1
    /\ ~InMempool(mempool, hash_transaction(last.tx))
    /\ BalanceOf(accounts, "B") = 5

\* C26: propose_new_block returns no block exactly when the caller is not the
\* current proposer or the mempool is empty, and then the mempool and the
\* chain are unchanged.
FailedProposalMutatesNothing ==
    [][last'.op = "propose_new_block"
       => /\ ~last'.ok
             = (\/ last'.p # get_current_proposer(
                                rotation, get_latest_block(chain).header.nonce + 1)
                \/ Len(mempool) = 0)
          /\ ~last'.ok => (last'.blk = NoBlock /\ mempool' = mempool
                           /\ chain' = chain)]_vars

\* C26 witness: a caller whose turn it is not has been refused while the
\* mempool holds transactions and the chain holds an added block.
FailedProposalWitness ==
    /\ last.op = "propose_new_block" /\ ~last.ok
    /\ last.p = "v2"
    /\ Len(mempool) >= 1
    /\ Len(chain) >= 2

\* C27: when propose_new_block returns a block, its transactions are the
\* mempool's in insertion order, its prev_hash is the hash of the tip's
\* header, its validator is the proposer, the mempool is empty afterwards
\* and the chain is unchanged.
ProposalDrainsMempool ==
    [][(last'.op = "propose_new_block" /\ last'.ok)
       => /\ last'.blk.transactions = mempool
          /\ Len(mempool) >= 1
          /\ last'.blk.header.prev_hash
               = hash_block_header(get_latest_block(chain).header)
          /\ last'.blk.header.validator = last'.p
          /\ mempool' = <<>>
          /\ chain' = chain]_vars

\* C27 witness: a proposal has drained two transactions, in the order of
\* their submission, onto a chain that holds an added block.
ProposalDrainWitness ==
    /\ last.op = "propose_new_block" /\ last.ok
    /\ last.blk.transactions = <<tXfer, tAB>>
    /\ mempool = <<>>
    /\ Len(chain) >= 2
    /\ last.blk.header.prev_hash = hash_block_header(chain[Len(chain)].header)

\* C28: run_consensus_round returns True exactly when the chain is one block
\* longer than before, the new tip is the block proposed in this round and
\* its transactions have been applied to the state; otherwise it returns
\* False and neither chain nor state has changed; a round makes one proposal
\* and one append.
RoundCommitsAtMostOneBlock ==
    [][last'.op = "run_consensus_round"
       => /\ last'.ok
             = (/\ Len(chain') = Len(chain) + 1
                /\ last'.blk # NoBlock
                /\ get_latest_block(chain') = last'.blk)
          /\ IF last'.ok
             THEN /\ chain' = Append(chain, last'.blk)
                  /\ last'.blk.transactions = mempool
                  /\ last'.blk.header.validator = last'.p
                  /\ State(accounts', total_supply')
                       = ApplyAll(State(accounts, total_supply),
                                  last'.blk.transactions)
             ELSE /\ chain' = chain
                  /\ accounts' = accounts
                  /\ total_supply' = total_supply]_vars

\* C28 witness: the second successful round has committed a DPA transfer that
\* moved 20 of d1 from A to B.
RoundCommitWitness ==
    /\ last.op = "run_consensus_round" /\ last.ok
    /\ Len(chain) = 3 /\ chain[3] = last.blk
    /\ \E i \in 1..Len(last.blk.transactions) : last.blk.transactions[i] = tXfer
    /\ DpaAmount(accounts, "B", "d1") = 20

IsDpaTransfer(tx) == Truthy(tx.data) /\ StartsWith(tx.data, "transfer")

\* the sender has a record of the asset with at least the amount
HoldsAtLeast(accs, a, dpa_id, amount) ==
    /\ a \in DOMAIN accs
    /\ dpa_id \in DOMAIN accs[a].dpas
    /\ accs[a].dpas[dpa_id].amount >= amount

RECURSIVE DpaSumOver(_, _, _)
DpaSumOver(accs, addrs, dpa_id) ==
    IF addrs = {} THEN 0
    ELSE LET a == CHOOSE x \in addrs : TRUE
         IN  DpaAmount(accs, a, dpa_id) + DpaSumOver(accs, addrs \ {a}, dpa_id)

\* the total of the asset over all accounts
AssetTotal(accs, dpa_id) == DpaSumOver(accs, DOMAIN accs, dpa_id)

\* a successful transfer: sender debited, recipient credited (its record
\* created if absent), nothing else moved
DpaTransferSucceeded(accs, accs2, tx) ==
    LET dpa_id == tx.data[2] IN
    /\ tx.recipient \in DOMAIN accs2
    /\ dpa_id \in DOMAIN accs2[tx.recipient].dpas
    /\ IF tx.sender = tx.recipient
       THEN DpaAmount(accs2, tx.sender, dpa_id) = DpaAmount(accs, tx.sender, dpa_id)
       ELSE /\ DpaAmount(accs2, tx.sender, dpa_id)
                 = DpaAmount(accs, tx.sender, dpa_id) - tx.amount
            /\ DpaAmount(accs2, tx.recipient, dpa_id)
                 = DpaAmount(accs, tx.recipient, dpa_id) + tx.amount
    /\ AssetTotal(accs2, dpa_id) = AssetTotal(accs, dpa_id)
    /\ \A a \in DOMAIN accs : a \in DOMAIN accs2 /\ accs2[a].balance = accs[a].balance
    /\ \A a \in DOMAIN accs2 \ DOMAIN accs : accs2[a].balance = 0

\* C29 as stated: a 'transfer:<id>' transaction moves tx.amount of the asset
\* from sender to recipient when the sender holds at least that much, keeping
\* the asset's total, and otherwise changes no balance, holding or account
\* entry.
DpaTransferFailureChangesNoEntry ==
    [][(last'.op = "process_transaction" /\ IsDpaTransfer(last'.tx))
       => IF HoldsAtLeast(accounts, last'.tx.sender, last'.tx.data[2],
                          last'.tx.amount)
          THEN DpaTransferSucceeded(accounts, accounts', last'.tx)
          ELSE accounts' = accounts /\ total_supply' = total_supply]_vars

\* C29: a 'transfer:<id>' transaction moves tx.amount of the asset from
\* sender to recipient when the sender holds at least that much, keeping the
\* asset's total (also for sender = recipient); otherwise no balance or
\* holding changes, every existing account entry stays as it was, and the
\* sender's and recipient's accounts are created empty when they were absent.
DpaTransferMovesOrKeeps ==
    [][(last'.op = "process_transaction" /\ IsDpaTransfer(last'.tx))
       => /\ total_supply' = total_supply
          /\ IF HoldsAtLeast(accounts, last'.tx.sender, last'.tx.data[2],
                             last'.tx.amount)
             THEN DpaTransferSucceeded(accounts, accounts', last'.tx)
             ELSE /\ DOMAIN accounts'
                       = DOMAIN accounts \cup {last'.tx.sender, last'.tx.recipient}
                  /\ \A a \in DOMAIN accounts : accounts'[a] = accounts[a]
                  /\ \A a \in DOMAIN accounts' \ DOMAIN accounts :
                        accounts'[a] = Account(a)]_vars

\* C29 witness: A was issued 2 of d1 and has transferred 1 of it to B.
DpaTransferWitness ==
    /\ last.op = "process_transaction" /\ IsDpaTransfer(last.tx)
    /\ last.tx.sender = "A" /\ last.tx.recipient = "B" /\ last.tx.amount = 1
    /\ DpaAmount(accounts, "A", "d1") = 1
    /\ DpaAmount(accounts, "B", "d1") = 1
    /\ total_supply = 2

-----------------------------------------------------------------------------
(* The state machine committing whole blocks: commit_block on blocks with
   arbitrary transaction lists *)

CommitTxs == {tAB, tIssue, tXfer}

RECURSIVE SeqsUpTo(_, _)
SeqsUpTo(S, n) ==
    IF n = 0 THEN {<<>>}
    ELSE LET shorter == SeqsUpTo(S, n - 1)
         IN  shorter \cup {Append(q, x) : q \in shorter, x \in S}

CommitBlocks ==
    {create_block(hash_block_header(get_latest_block(chain).header), txs, "v1", now) :
        txs \in SeqsUpTo(CommitTxs, MaxBlockTxs)}

CommitBlock(b) ==
    LET st == commit_block(State(accounts, total_supply), b) IN
    /\ steps < MaxCommits
    /\ steps' = steps + 1
    /\ accounts' = st.accounts
    /\ total_supply' = st.total_supply
    /\ last' = Call("commit_block", TRUE, NoneId, NoTx, b)
    /\ UNCHANGED <<offledger, probe, chain, mempool, registry, rotation, now, threads, accepted,
                   returned>>

NextCommit == \E b \in CommitBlocks : CommitBlock(b)

SpecCommit == InitState /\ [][NextCommit]_vars

\* the state after the first k transactions of the list, one after the other
RECURSIVE StateAfter(_, _, _)
StateAfter(st, txs, k) ==
    IF k = 0 THEN st
    ELSE process_transaction(StateAfter(st, txs, k - 1), txs[k])

Balance(accs, a) == IF a \in DOMAIN accs THEN accs[a].balance ELSE 0

\* the transaction's precondition fails in the state: the sender lacks the
\* DPA holding (transfer) or the balance (currency); an issue has none
PreconditionFails(st, tx) ==
    IF IsIssue(tx) THEN FALSE
    ELSE IF IsDpaTransfer(tx)
    THEN ~HoldsAtLeast(st.accounts, tx.sender, tx.data[2], tx.amount)
    ELSE Balance(st.accounts, tx.sender) < tx.amount

SameBalancesAndHoldings(st1, st2) ==
    /\ st1.total_supply = st2.total_supply
    /\ \A a \in DOMAIN st1.accounts \cup DOMAIN st2.accounts :
          /\ Balance(st1.accounts, a) = Balance(st2.accounts, a)
          /\ DpaAmount(st1.accounts, a, "d1") = DpaAmount(st2.accounts, a, "d1")

\* along the list, a transaction whose precondition fails leaves balances
\* and holdings alone, and one whose precondition holds moves something
\* (an issue and a transfer to oneself apart)
RECURSIVE SkipsFailedOnly(_, _)
SkipsFailedOnly(st, txs) ==
    \/ Len(txs) = 0
    \/ LET after == process_transaction(st, txs[1]) IN
        /\ IF PreconditionFails(st, txs[1])
           THEN SameBalancesAndHoldings(st, after)
           ELSE \/ IsIssue(txs[1])
                \/ txs[1].sender = txs[1].recipient
                \/ ~SameBalancesAndHoldings(st, after)
        /\ SkipsFailedOnly(after, Tail(txs))

\* C30: commit_block applies the block's transactions one after the other in
\* block order; a transaction whose precondition fails changes no balance or
\* holding, and every transaction after it is still applied to the state the
\* earlier ones left, so it can spend what they delivered.
CommitBlockIsBestEffort ==
    [][last'.op = "commit_block"
       => LET txs == last'.blk.transactions
              pre == State(accounts, total_supply)
          IN  /\ State(accounts', total_supply') = StateAfter(pre, txs, Len(txs))
              /\ SkipsFailedOnly(pre, txs)]_vars

\* C30 witness: on the empty state, a block whose first transfer fails for
\* lack of the asset, whose issue then delivers 50 of d1 to A and whose last
\* transfer spends 20 of them: A holds 30 and B 20 afterwards.
CommitBlockWitness ==
    /\ last.op = "commit_block"
    /\ last.blk.transactions = <<tXfer, tIssue, tXfer>>
    /\ steps = 1
    /\ DpaAmount(accounts, "A", "d1") = 30
    /\ DpaAmount(accounts, "B", "d1") = 20
    /\ total_supply = 50

\* C31: the chain is append-only: it starts as the one genesis block given
\* at construction, and every step leaves the earlier chain as a prefix of
\* the later one, so no block is removed, reordered or replaced, the length
\* never decreases and the first block stays the genesis block.
ChainIsAppendOnly ==
    /\ Len(chain) = 1 /\ chain[1] \in GenesisBlocks
    /\ [][/\ IsPrefix(chain, chain')
          /\ Len(chain') >= Len(chain)
          /\ chain'[1] = chain[1]]_vars

\* C31 witness: two blocks have been appended after a genesis block that
\* carries a transaction.
ChainAppendWitness ==
    /\ Len(chain) = 3
    /\ chain[1] = GenesisFunded
    /\ chain[2] # chain[3]
    /\ last.op = "add_block" /\ last.ok

\* the transactions of the first n blocks of the chain, in chain and block order
RECURSIVE ChainTxs(_, _)
ChainTxs(ch, n) ==
    IF n = 0 THEN <<>> ELSE ChainTxs(ch, n - 1) \o ch[n].transactions

\* the state the chain's transactions produce from the empty state
Replay(ch) ==
    StateAfter(State(<<>>, 0), ChainTxs(ch, Len(ch)), Len(ChainTxs(ch, Len(ch))))

\* C32: in every state reached by sequential ledger operations the accounts
\* (balances and DPA holdings) and total_supply are the result of applying
\* process_transaction, from the empty state, to the transactions of all
\* blocks of the chain, genesis included, in chain and block order.
StateIsFunctionOfChain ==
    State(accounts, total_supply) = Replay(chain)

\* C32 witness: the genesis block issued 50 of d1 to A, an appended block
\* moved 20 of them to B.
StateReplayWitness ==
    /\ Len(chain) = 3
    /\ chain[1] = GenesisFunded
    /\ \E i \in 2..3 : \E k \in 1..Len(chain[i].transactions) :
          chain[i].transactions[k] = tXfer
    /\ DpaAmount(accounts, "B", "d1") = 20
    /\ total_supply = 50

\* C33: with the ledger called by one thread, add_block called with the
\* block propose_new_block has just returned, the chain not having changed in
\* between, returns True; and a consensus round that proposed a block (and so
\* cleared the mempool) returns True.
ProposedBlockAccepted ==
    [][/\ (/\ last.op = "propose_new_block" /\ last.blk # NoBlock
           /\ last'.op = "add_block" /\ last'.blk = last.blk)
          => (last'.ok /\ chain' = Append(chain, last.blk))
       /\ (last'.op = "run_consensus_round" /\ last'.blk # NoBlock)
          => (last'.ok /\ chain' = Append(chain, last'.blk))]_vars

\* C33 witness: add_block has accepted, as the chain's third block, the
\* block a registered validator was handed by propose_new_block.
ProposedBlockWitness ==
    /\ last.op = "add_block" /\ last.ok
    /\ last.blk.header.validator \in {"v1", "v2"}
    /\ Len(last.blk.transactions) > 0
    /\ Len(chain) = 3 /\ chain[3] = last.blk
    /\ mempool = <<>>

-----------------------------------------------------------------------------
(* Clients submitting from two threads: add_transaction only, step-wise *)

tAB60 == Transaction("A", "B", 60, NoneStr, 1, NoneStr)

\* tAB and tAB60 have the same sender and nonce and different hashes
NonceTxs == {tAB, tAB60, tXfer, tZero}

NextSubmit ==
    \E t \in Threads :
        \/ \E tx \in NonceTxs : CallAddTransaction(t, tx)
        \/ AtCheckDup(t)
        \/ AtValidate(t)
        \/ AtInsert(t)

SpecSubmit == InitState /\ [][NextSubmit]_vars

\* C34: in every reachable state no two transactions of the mempool have the
\* same sender and the same nonce, and every transaction of the mempool has
\* amount > 0 and a non-empty sender and recipient.
MempoolNonceUnique ==
    /\ \A i, j \in 1..Len(mempool) :
          i < j => ~(/\ mempool[i].sender = mempool[j].sender
                     /\ mempool[i].nonce = mempool[j].nonce)
    /\ \A i \in 1..Len(mempool) :
          /\ mempool[i].amount > 0
          /\ mempool[i].sender # ""
          /\ mempool[i].recipient # ""

-----------------------------------------------------------------------------
(* The state machine fed 'issue:' and 'transfer:' transactions with positive
   amounts only *)

AssetTxs ==
    {Transaction("G", r, a, <<"issue", "d1">>, 1, NoneStr) :
        r \in {"A", "B"}, a \in {1, 2}}
    \cup {Transaction(s, r, 1, <<"transfer", "d1">>, 1, NoneStr) :
            s \in {"A", "B"}, r \in {"A", "B"}}

NextAssets == \E tx \in AssetTxs : ProcessTransaction(tx)

SpecAssets == InitState /\ [][NextAssets]_vars

\* the sum of the amounts of the account's DPA records
RECURSIVE AccountHoldings(_, _, _)
AccountHoldings(accs, a, ids) ==
    IF ids = {} THEN 0
    ELSE LET id == CHOOSE x \in ids : TRUE
         IN  accs[a].dpas[id].amount + AccountHoldings(accs, a, ids \ {id})

\* the sum of the amounts of all DPA records of the given accounts
RECURSIVE HoldingsSum(_, _)
HoldingsSum(accs, addrs) ==
    IF addrs = {} THEN 0
    ELSE LET a == CHOOSE x \in addrs : TRUE
         IN  AccountHoldings(accs, a, DOMAIN accs[a].dpas)
             + HoldingsSum(accs, addrs \ {a})

\* C35: after any sequence of 'issue:' and 'transfer:' transactions with
\* positive amounts, total_supply equals the sum of the amounts of all DPA
\* holdings over all accounts and asset ids.
TotalSupplyMatchesHoldings ==
    total_supply = HoldingsSum(accounts, DOMAIN accounts)

-----------------------------------------------------------------------------
(* One HTLCManager (registered as chain "c1") called directly: contracts are
   created, committed, redeemed and refunded at arbitrary heights *)

Alice == <<"A">>
Bob == <<"B">>

Secret1 == <<"p1">>
Secret2 == <<"p2">>

\* what datetime.now() can return: the last reading or a later one
ClockReads == {t \in {now, now + 1} : t <= MaxClock}

\* block heights the operations are called at: below and at the time lock
Heights == {MaxTimeLock - 1, MaxTimeLock}

HtlcAmounts == {0, 5}
HtlcHashLocks == {hash_preimage(Secret1), <<"abc">>}
HtlcTimeLocks == {0, MaxTimeLock}

\* ids handed to the manager: the ones it holds and one it does not
HtlcIds(m) ==
    DOMAIN m.htlcs \cup DOMAIN m.pending_htlcs \cup {HtlcId(0, Alice, Bob)}

LedgerIdle ==
    /\ chain = <<GenesisEmpty>>
    /\ accounts = <<>>
    /\ total_supply = 0
    /\ mempool = <<>>
    /\ registry \in InitRegistries
    /\ rotation = ProposerRotation(registry)
    /\ now = 1
    /\ last = Call("init", TRUE, NoneId, NoTx, NoBlock)
    /\ threads = [t \in Threads |-> Idle]
    /\ accepted = {}
    /\ returned = {}
    /\ steps = 0
    /\ probe = NoProbe

InitHtlc ==
    /\ LedgerIdle
    /\ chain_htlc_managers = ("c1" :> HTLCManager)
    /\ swaps = <<>>
    /\ created = 0
    /\ channels = <<>>
    /\ pending_closures = <<>>
    /\ call = NoCall

ledger == <<chain, mempool, accounts, total_supply, registry, rotation, last,
            threads, accepted, returned, steps, probe>>

CreateHtlc(ts, amount, hash_lock, time_lock) ==
    LET r == create_htlc(chain_htlc_managers["c1"], created + 1, ts, Alice, Bob,
                         amount, hash_lock, time_lock) IN
    /\ created < MaxHtlcs
    /\ now' = ts
    /\ created' = IF r.raised THEN created ELSE created + 1
    /\ chain_htlc_managers' = [chain_htlc_managers EXCEPT !["c1"] = r.manager]
    /\ call' = OffCall("create_htlc", ~r.raised, r.raised, r.htlc.htlc_id, <<>>, 0)
    /\ UNCHANGED <<ledger, swaps, channels, pending_closures>>

CommitHtlc(htlc_id) ==
    LET r == commit_htlc(chain_htlc_managers["c1"], htlc_id) IN
    /\ chain_htlc_managers' = [chain_htlc_managers EXCEPT !["c1"] = r.manager]
    /\ call' = OffCall("commit_htlc", r.ok, FALSE, htlc_id, <<>>, 0)
    /\ UNCHANGED <<ledger, now, swaps, created, channels, pending_closures>>

RedeemHtlc(htlc_id, preimage, current_block_height) ==
    LET r == redeem_htlc(chain_htlc_managers["c1"], htlc_id, preimage,
                         current_block_height) IN
    /\ chain_htlc_managers' = [chain_htlc_managers EXCEPT !["c1"] = r.manager]
    /\ call' = OffCall("redeem_htlc", r.ok, FALSE, htlc_id, preimage,
                       current_block_height)
    /\ UNCHANGED <<ledger, now, swaps, created, channels, pending_closures>>

RefundHtlc(htlc_id, current_block_height) ==
    LET r == refund_htlc(chain_htlc_managers["c1"], htlc_id, current_block_height) IN
    /\ chain_htlc_managers' = [chain_htlc_managers EXCEPT !["c1"] = r.manager]
    /\ call' = OffCall("refund_htlc", r.ok, FALSE, htlc_id, <<>>, current_block_height)
    /\ UNCHANGED <<ledger, now, swaps, created, channels, pending_closures>>

NextHtlc ==
    \/ \E ts \in ClockReads, a \in HtlcAmounts, hl \in HtlcHashLocks,
          tl \in HtlcTimeLocks : CreateHtlc(ts, a, hl, tl)
    \/ \E id \in HtlcIds(chain_htlc_managers["c1"]) : CommitHtlc(id)
    \/ \E id \in HtlcIds(chain_htlc_managers["c1"]), p \in {Secret1, Secret2},
          h \in Heights : RedeemHtlc(id, p, h)
    \/ \E id \in HtlcIds(chain_htlc_managers["c1"]), h \in Heights : RefundHtlc(id, h)

SpecHtlc == InitHtlc /\ [][NextHtlc]_vars

\* the HTLC objects the managers hold
HtlcObjects(ms) ==
    UNION {{ms[c].htlcs[i] : i \in DOMAIN ms[c].htlcs}
           \cup {ms[c].pending_htlcs[i] : i \in DOMAIN ms[c].pending_htlcs} :
           c \in DOMAIN ms}

\* C36: an HTLC moves only PENDING -> COMMITTED (by commit_htlc) -> REDEEMED
\* or REFUNDED, and the last two are terminal; it becomes REDEEMED only by a
\* redeem with the preimage of its hash_lock at a height below its
\* time_lock, and REFUNDED only by a refund at a height >= its time_lock,
\* and a successful redeem or refund acts on a COMMITTED HTLC; at no height
\* can an HTLC be both redeemed and refunded.
HtlcLifecycle ==
    [][/\ \A x \in HtlcObjects(chain_htlc_managers) :
          \A y \in HtlcObjects(chain_htlc_managers') :
             x.obj = y.obj =>
                /\ [y EXCEPT !.status = x.status, !.preimage = x.preimage] = x
                /\ \/ y = x
                   \/ /\ x.status = "PENDING" /\ y.status = "COMMITTED"
                      /\ y.preimage = x.preimage
                      /\ call'.op = "commit_htlc" /\ call'.ok
                      /\ call'.id = x.htlc_id
                   \/ /\ x.status = "COMMITTED" /\ y.status = "REDEEMED"
                      /\ call'.op = "redeem_htlc" /\ call'.ok
                      /\ call'.id = x.htlc_id
                      /\ y.preimage = call'.preimage
                      /\ hash_preimage(call'.preimage) = x.hash_lock
                      /\ call'.height < x.time_lock
                   \/ /\ x.status = "COMMITTED" /\ y.status = "REFUNDED"
                      /\ y.preimage = x.preimage
                      /\ call'.op = "refund_htlc" /\ call'.ok
                      /\ call'.id = x.htlc_id
                      /\ call'.height >= x.time_lock
       /\ (call'.op \in {"redeem_htlc", "refund_htlc"} /\ call'.ok)
          => \E x \in HtlcObjects(chain_htlc_managers) :
                /\ x.htlc_id = call'.id /\ x.status = "COMMITTED"
                /\ \E y \in HtlcObjects(chain_htlc_managers') :
                      y.obj = x.obj /\ y.status \in {"REDEEMED", "REFUNDED"}
       /\ \A x \in HtlcObjects(chain_htlc_managers'), h \in Heights :
             ~(can_refund(x, h)
               /\ \E p \in {Secret1, Secret2} : can_redeem(x, p, h))]_vars

\* C36 witness: of two committed HTLCs one has been redeemed with its
\* preimage and the other has just been refunded.
HtlcLifecycleWitness ==
    /\ call.op = "refund_htlc" /\ call.ok
    /\ \E x, y \in HtlcObjects(chain_htlc_managers) :
          /\ x.status = "REDEEMED" /\ x.preimage = Secret1
          /\ y.status = "REFUNDED" /\ y.htlc_id = call.id

-----------------------------------------------------------------------------
(* One AtomicSwapManager with the HTLC managers of chains "c1" and "c2"
   registered: Alice and Bob initiate swaps, lock, complete and refund them
   at arbitrary heights *)

InitSwap ==
    /\ LedgerIdle
    /\ chain_htlc_managers = ("c1" :> HTLCManager) @@ ("c2" :> HTLCManager)
    /\ swaps = <<>>
    /\ created = 0
    /\ channels = <<>>
    /\ pending_closures = <<>>
    /\ call = NoCall

SwapTimeLocks == {0, MaxTimeLock}

\* ids handed to the swap manager: the ones it holds and one it does not
SwapIds == DOMAIN swaps \cup {SwapId(0, Alice, Bob)}

InitiateSwap(ts, time_lock) ==
    LET r == initiate_swap(swaps, created + 1, created + 1, ts, Alice, Bob,
                           "c1", "c2", 5, 7, time_lock) IN
    /\ created < MaxSwapObjects
    /\ now' = ts
    /\ created' = IF r.raised THEN created ELSE created + 1
    /\ swaps' = r.swaps
    /\ call' = OffCall("initiate_swap", ~r.raised, r.raised, r.swap_id, <<>>, 0)
    /\ UNCHANGED <<ledger, chain_htlc_managers, channels, pending_closures>>

LockInitiatorFunds(ts, swap_id) ==
    LET r == lock_initiator_funds(chain_htlc_managers, swaps, created + 1, ts,
                                  swap_id) IN
    /\ created < MaxSwapObjects
    /\ now' = IF r.ok THEN ts ELSE now
    /\ created' = IF r.ok THEN created + 1 ELSE created
    /\ chain_htlc_managers' = r.managers
    /\ swaps' = r.swaps
    /\ call' = OffCall("lock_initiator_funds", r.ok, FALSE, swap_id, <<>>, 0)
    /\ UNCHANGED <<ledger, channels, pending_closures>>

LockParticipantFunds(ts, swap_id) ==
    LET r == lock_participant_funds(chain_htlc_managers, swaps, created + 1, ts,
                                    swap_id) IN
    /\ created < MaxSwapObjects
    /\ now' = IF r.ok THEN ts ELSE now
    /\ created' = IF r.ok THEN created + 1 ELSE created
    /\ chain_htlc_managers' = r.managers
    /\ swaps' = r.swaps
    /\ call' = OffCall("lock_participant_funds", r.ok, FALSE, swap_id, <<>>, 0)
    /\ UNCHANGED <<ledger, channels, pending_closures>>

CompleteSwap(swap_id, current_block_height) ==
    LET r == complete_swap(chain_htlc_managers, swaps, swap_id,
                           current_block_height) IN
    /\ chain_htlc_managers' = r.managers
    /\ swaps' = r.swaps
    /\ call' = OffCall("complete_swap", r.ok, FALSE, swap_id, <<>>,
                       current_block_height)
    /\ UNCHANGED <<ledger, now, created, channels, pending_closures>>

RefundSwap(swap_id, current_block_height) ==
    LET r == refund_swap(chain_htlc_managers, swaps, swap_id,
                         current_block_height) IN
    /\ chain_htlc_managers' = r.managers
    /\ swaps' = r.swaps
    /\ call' = OffCall("refund_swap", r.ok, FALSE, swap_id, <<>>,
                       current_block_height)
    /\ UNCHANGED <<ledger, now, created, channels, pending_closures>>

NextSwap ==
    \/ \E ts \in ClockReads, tl \in SwapTimeLocks : InitiateSwap(ts, tl)
    \/ \E ts \in ClockReads, id \in SwapIds : LockInitiatorFunds(ts, id)
    \/ \E ts \in ClockReads, id \in SwapIds : LockParticipantFunds(ts, id)
    \/ \E id \in SwapIds, h \in Heights : CompleteSwap(id, h)
    \/ \E id \in SwapIds, h \in Heights : RefundSwap(id, h)

SpecSwap == InitSwap /\ [][NextSwap]_vars

\* the status of the HTLC the chain's manager holds under the id
HtlcStatus(ms, chain_id, htlc_id) ==
    IF chain_id \in DOMAIN ms /\ htlc_id \in DOMAIN ms[chain_id].htlcs
    THEN ms[chain_id].htlcs[htlc_id].status
    ELSE "NONE"

\* C37: for every swap, its initiator HTLC is REDEEMED if and only if its
\* participant HTLC is REDEEMED, and a swap that is COMPLETED or REFUNDED
\* never changes status again.
SwapAtomicity ==
    [][/\ \A id \in DOMAIN swaps' :
          (HtlcStatus(chain_htlc_managers', swaps'[id].initiator_chain,
                      swaps'[id].initiator_htlc_id) = "REDEEMED")
          <=> (HtlcStatus(chain_htlc_managers', swaps'[id].participant_chain,
                          swaps'[id].participant_htlc_id) = "REDEEMED")
       /\ \A id \in DOMAIN swaps : \A id2 \in DOMAIN swaps' :
             (swaps[id].obj = swaps'[id2].obj
              /\ swaps[id].status \in {"COMPLETED", "REFUNDED"})
             => swaps'[id2].status = swaps[id].status]_vars

\* C38: each side of a swap is locked at most once: lock_initiator_funds and
\* lock_participant_funds succeed only on a swap that has no HTLC on that
\* side yet, so every committed HTLC of the chains' managers is the
\* initiator or the participant HTLC of a swap.
SwapSidesLockedOnce ==
    [][/\ (call'.op = "lock_initiator_funds" /\ call'.ok)
          => swaps[call'.id].initiator_htlc_id = NoHtlcId
       /\ (call'.op = "lock_participant_funds" /\ call'.ok)
          => swaps[call'.id].participant_htlc_id = NoHtlcId
       /\ \A x \in HtlcObjects(chain_htlc_managers') :
             x.status # "PENDING"
             => \E id \in DOMAIN swaps' :
                   x.htlc_id \in {swaps'[id].initiator_htlc_id,
                                  swaps'[id].participant_htlc_id}]_vars

-----------------------------------------------------------------------------
(* One ChannelManager: channels are created and offered state updates,
   closure requests and finalizations with arbitrary arguments *)

InitChannel ==
    /\ LedgerIdle
    /\ chain_htlc_managers = <<>>
    /\ swaps = <<>>
    /\ created = 0
    /\ channels = ChannelManager.channels
    /\ pending_closures = ChannelManager.pending_closures
    /\ call = NoCall

\* the manager object the two dicts belong to
Manager == [channels |-> channels, pending_closures |-> pending_closures]

ParticipantLists ==
    {<<ChannelParticipant("a", Alice, 5, TRUE),
       ChannelParticipant("b", Bob, 5, FALSE)>>,
     <<ChannelParticipant("a", Alice, 3, TRUE),
       ChannelParticipant("b", Bob, 7, FALSE)>>,
     <<ChannelParticipant("a", Alice, 5, TRUE)>>}

DisputeTimeouts == {60, 86400}

\* balances of an update: kept, moved, with another total, without "b"
UpdateBalances ==
    {("a" :> 5) @@ ("b" :> 5), ("a" :> 4) @@ ("b" :> 6),
     ("a" :> 4) @@ ("b" :> 5), ("a" :> 10)}

\* signatures of an update: of both, of one, one of them empty
UpdateSignatures ==
    {("a" :> "sa") @@ ("b" :> "sb"), ("a" :> "sa"), ("a" :> "sa") @@ ("b" :> "")}

Updates ==
    {ChannelStateUpdate(n, b, s) :
        n \in 1..MaxSequence, b \in UpdateBalances, s \in UpdateSignatures}

\* final states of a closure request: one more, to follow the last update
FinalStates ==
    {ChannelStateUpdate(n, b, s) :
        n \in 1..MaxSequence + 1, b \in UpdateBalances,
        s \in UpdateSignatures}

\* ids handed to the channel manager: the ones it holds and one it does not
ChannelIds == DOMAIN channels \cup {ChannelId(0)}

CreateChannel(ts, participants, dispute_timeout) ==
    LET r == create_channel(Manager, ts, participants, dispute_timeout) IN
    /\ created < MaxChannels
    /\ now' = ts
    /\ created' = IF r.raised THEN created ELSE created + 1
    /\ channels' = r.manager.channels
    /\ pending_closures' = r.manager.pending_closures
    /\ call' = OffCall("create_channel", ~r.raised, r.raised, r.channel_id,
                       <<>>, 0)
    /\ UNCHANGED <<ledger, chain_htlc_managers, swaps>>

UpdateChannelState(channel_id, new_state) ==
    LET r == update_channel_state(Manager, channel_id, new_state) IN
    /\ channels' = r.manager.channels
    /\ pending_closures' = r.manager.pending_closures
    /\ call' = OffCall("update_channel_state", r.ok, FALSE, channel_id, <<>>,
                       new_state.sequence_number)
    /\ UNCHANGED <<ledger, now, chain_htlc_managers, swaps, created>>

InitiateChannelClosure(channel_id, final_state) ==
    LET r == initiate_channel_closure(Manager, channel_id, final_state) IN
    /\ channels' = r.manager.channels
    /\ pending_closures' = r.manager.pending_closures
    /\ call' = OffCall("initiate_channel_closure", r.ok, FALSE, channel_id,
                       <<>>, final_state.sequence_number)
    /\ UNCHANGED <<ledger, now, chain_htlc_managers, swaps, created>>

FinalizeChannelClosure(channel_id) ==
    LET r == finalize_channel_closure(Manager, channel_id) IN
    /\ channels' = r.manager.channels
    /\ pending_closures' = r.manager.pending_closures
    /\ call' = OffCall("finalize_channel_closure", r.ok, FALSE, channel_id,
                       <<>>, 0)
    /\ UNCHANGED <<ledger, now, chain_htlc_managers, swaps, created>>

NextChannel ==
    \/ \E ts \in ClockReads, ps \in ParticipantLists, dt \in DisputeTimeouts :
          CreateChannel(ts, ps, dt)
    \/ \E id \in ChannelIds, u \in Updates : UpdateChannelState(id, u)
    \/ \E id \in ChannelIds, u \in FinalStates : InitiateChannelClosure(id, u)
    \/ \E id \in ChannelIds : FinalizeChannelClosure(id)

SpecChannel == InitChannel /\ [][NextChannel]_vars

\* the caller offers a channel the update apply_state_update accepts: fully
\* signed, with the next sequence number and the same total
OfferUpdate ==
    \E id \in DOMAIN channels, u \in Updates :
        /\ apply_state_update(channels[id], u).ok
        /\ UpdateChannelState(id, u)

\* the caller asks to close a channel with a valid final state
RequestClosure ==
    \E id \in DOMAIN channels, u \in FinalStates :
        /\ is_valid_state_update(channels[id], u)
        /\ InitiateChannelClosure(id, u)

\* a caller that creates a channel and keeps offering valid updates, closure
\* requests and finalizations
SpecChannelLive ==
    /\ SpecChannel
    /\ WF_vars(\E ts \in ClockReads, ps \in ParticipantLists,
                  dt \in DisputeTimeouts :
                  /\ ~create_channel(Manager, ts, ps, dt).raised
                  /\ CreateChannel(ts, ps, dt))
    /\ WF_vars(OfferUpdate)
    /\ WF_vars(RequestClosure)
    /\ WF_vars(\E id \in DOMAIN pending_closures : FinalizeChannelClosure(id))

\* no ChannelManager operation moves a channel out of OPENING: updates,
\* closure requests and finalizations all fail
ChannelsStayOpening ==
    /\ \A id \in DOMAIN channels : channels[id].channel_state = "OPENING"
    /\ pending_closures = <<>>
    /\ call.op \in {"update_channel_state", "initiate_channel_closure",
                    "finalize_channel_closure"} => ~call.ok

\* C39: with a caller that keeps offering them, a channel created through
\* ChannelManager eventually has a fully signed update with the next sequence
\* number and unchanged total accepted by update_channel_state, unless its
\* closure is requested first, and a channel eventually is CLOSED after
\* initiate_channel_closure and finalize_channel_closure.
ChannelUpdatesAndCloses ==
    /\ <>(/\ call.op \in {"update_channel_state", "initiate_channel_closure"}
          /\ call.ok)
    /\ <>(\E id \in DOMAIN channels : channels[id].channel_state = "CLOSED")

====
